---- MODULE Spec2Model ----
(***************************************************************************)
(* A model of the decoding layer of mdlayher/unifi: Station.UnmarshalJSON  *)
(* (stations.go) and Device.UnmarshalJSON (devices.go).                    *)
(*                                                                         *)
(* Text that the code parses (hardware addresses, IP literals, URLs,       *)
(* numbers sent as JSON strings) is a sequence of one-character strings,   *)
(* and the parsers are computed character by character as the Go standard  *)
(* library computes them.  Text that the code only copies or compares      *)
(* (names, identifiers, radio codes) is a TLA+ string.                     *)
(***************************************************************************)
EXTENDS Integers, Sequences, FiniteSets, TLC

(***************************************************************************)
(* Bounds of the model.                                                    *)
(***************************************************************************)
\* longest ethernet_table in a device wire object
MaxNICs == 2
\* longest radio_table in a device wire object
MaxRadios == 2
\* longest radio_table_stats in a device wire object
MaxStatRows == 2

(***************************************************************************)
(* Characters.                                                             *)
(***************************************************************************)
DecDigits == <<"0", "1", "2", "3", "4", "5", "6", "7", "8", "9">>
LowerHex == <<"0", "1", "2", "3", "4", "5", "6", "7", "8", "9",
              "a", "b", "c", "d", "e", "f">>
UpperHex == <<"0", "1", "2", "3", "4", "5", "6", "7", "8", "9",
              "A", "B", "C", "D", "E", "F">>

IsDigit(c) == \E i \in 1..10 : DecDigits[i] = c
IsHexDigit(c) == \E i \in 1..16 : LowerHex[i] = c \/ UpperHex[i] = c
DigitVal(c) == (CHOOSE i \in 1..10 : DecDigits[i] = c) - 1
HexVal(c) == (CHOOSE i \in 1..16 : LowerHex[i] = c \/ UpperHex[i] = c) - 1
LowerLetters == <<"a", "b", "c", "d", "e", "f", "g", "h", "i", "j", "k", "l",
                  "m", "n", "o", "p", "q", "r", "s", "t", "u", "v", "w", "x",
                  "y", "z">>
UpperLetters == <<"A", "B", "C", "D", "E", "F", "G", "H", "I", "J", "K", "L",
                  "M", "N", "O", "P", "Q", "R", "S", "T", "U", "V", "W", "X",
                  "Y", "Z">>
IsUpper(c) == \E i \in 1..26 : UpperLetters[i] = c
IsLetter(c) == IsUpper(c) \/ \E i \in 1..26 : LowerLetters[i] = c

\* s[from:] of Go: the suffix after the first n characters
Drop(s, n) == SubSeq(s, n + 1, Len(s))
\* s[:n] of Go
Take(s, n) == SubSeq(s, 1, n)
\* index (from 1) of the first c in s, 0 when there is none
RECURSIVE IndexFrom(_, _, _)
IndexFrom(s, c, i) ==
    IF i > Len(s) THEN 0
    ELSE IF s[i] = c THEN i
    ELSE IndexFrom(s, c, i + 1)
Index(s, c) == IndexFrom(s, c, 1)
Contains(s, c) == Index(s, c) # 0

(***************************************************************************)
(* net: the number scanners of net/parse.go.  Each returns the value, the  *)
(* number of characters consumed, and whether a number was read.           *)
(***************************************************************************)
\* the limit above which dtoi and xtoi give up (0xFFFFFF)
big == 16777215

RECURSIVE dtoiFrom(_, _, _)
dtoiFrom(s, i, n) ==
    IF i < Len(s) /\ IsDigit(s[i + 1])
    THEN LET m == n * 10 + DigitVal(s[i + 1])
         IN IF m >= big THEN [n |-> big, i |-> i, ok |-> FALSE]
            ELSE dtoiFrom(s, i + 1, m)
    ELSE IF i = 0 THEN [n |-> 0, i |-> 0, ok |-> FALSE]
    ELSE [n |-> n, i |-> i, ok |-> TRUE]
dtoi(s) == dtoiFrom(s, 0, 0)

RECURSIVE xtoiFrom(_, _, _)
xtoiFrom(s, i, n) ==
    IF i < Len(s) /\ IsHexDigit(s[i + 1])
    THEN LET m == n * 16 + HexVal(s[i + 1])
         IN IF m >= big THEN [n |-> 0, i |-> i, ok |-> FALSE]
            ELSE xtoiFrom(s, i + 1, m)
    ELSE IF i = 0 THEN [n |-> 0, i |-> 0, ok |-> FALSE]
    ELSE [n |-> n, i |-> i, ok |-> TRUE]
xtoi(s) == xtoiFrom(s, 0, 0)

\* xtoi2: two hex digits, followed by the separator e when more text follows
\* (e = "" stands for the byte 0 that the dotted form passes)
xtoi2(s, e) ==
    IF Len(s) > 2 /\ s[3] # e THEN [n |-> 0, ok |-> FALSE]
    ELSE LET r == xtoi(Take(s, 2))
         IN [n |-> r.n, ok |-> r.ok /\ r.i = 2]

(***************************************************************************)
(* Errors.  An error value is [type, msg, val]: the Go type of the error,  *)
(* the fixed part of its message, and the raw text it carries.  NilErr is  *)
(* the nil error.                                                          *)
(***************************************************************************)
NilErr == [type |-> "nil", msg |-> "", val |-> <<>>]
MkErr(type, msg, val) == [type |-> type, msg |-> msg, val |-> val]
\* &net.AddrError{Err: "invalid MAC address", Addr: s}
AddrError(s) == MkErr("*net.AddrError", "invalid MAC address", s)

(***************************************************************************)
(* net.ParseMAC.  The result is [err, hw]: hw is the sequence of bytes, and *)
(* the nil HardwareAddr is the empty sequence.                             *)
(***************************************************************************)
NilHW == <<>>

RECURSIVE macGroups3(_, _, _, _)
\* the loop of the colon and hyphen forms: n groups "xx" 3 characters apart
macGroups3(s, n, i, hw) ==
    IF i = n THEN [err |-> NilErr, hw |-> hw]
    ELSE LET b == xtoi2(Drop(s, 3 * i), s[3])
         IN IF ~b.ok THEN [err |-> AddrError(s), hw |-> NilHW]
            ELSE macGroups3(s, n, i + 1, Append(hw, b.n))

RECURSIVE macGroups5(_, _, _, _)
\* the loop of the dotted form: n/2 groups "xxxx" 5 characters apart
macGroups5(s, n, i, hw) ==
    IF i >= n THEN [err |-> NilErr, hw |-> hw]
    ELSE LET x == 5 * (i \div 2)
             hi == xtoi2(SubSeq(s, x + 1, x + 2), "")
             lo == xtoi2(Drop(s, x + 2), s[5])
         IN IF ~hi.ok \/ ~lo.ok THEN [err |-> AddrError(s), hw |-> NilHW]
            ELSE macGroups5(s, n, i + 2, hw \o <<hi.n, lo.n>>)

ParseMAC(s) ==
    IF Len(s) < 14 THEN [err |-> AddrError(s), hw |-> NilHW]
    ELSE IF s[3] = ":" \/ s[3] = "-"
    THEN IF (Len(s) + 1) % 3 # 0 THEN [err |-> AddrError(s), hw |-> NilHW]
         ELSE LET n == (Len(s) + 1) \div 3
              IN IF n # 6 /\ n # 8 /\ n # 20
                 THEN [err |-> AddrError(s), hw |-> NilHW]
                 ELSE macGroups3(s, n, 0, <<>>)
    ELSE IF s[5] = "."
    THEN IF (Len(s) + 1) % 5 # 0 THEN [err |-> AddrError(s), hw |-> NilHW]
         ELSE LET n == (2 * (Len(s) + 1)) \div 5
              IN IF n # 6 /\ n # 8 /\ n # 20
                 THEN [err |-> AddrError(s), hw |-> NilHW]
                 ELSE macGroups5(s, n, 0, <<>>)
    ELSE [err |-> AddrError(s), hw |-> NilHW]

(***************************************************************************)
(* net.ParseIP.  The result is the 16-byte form; the nil IP is the empty   *)
(* sequence.                                                               *)
(***************************************************************************)
IPv4len == 4
IPv6len == 16
NilIP == <<>>
\* net.IPv4: the IPv4-mapped 16-byte form
IPv4(a, b, c, d) == <<0, 0, 0, 0, 0, 0, 0, 0, 0, 0, 255, 255, a, b, c, d>>

RECURSIVE parseIPv4From(_, _, _)
parseIPv4From(s, i, p) ==
    IF i = IPv4len
    THEN IF Len(s) # 0 THEN NilIP ELSE IPv4(p[1], p[2], p[3], p[4])
    ELSE IF Len(s) = 0 THEN NilIP
    ELSE IF i > 0 /\ s[1] # "." THEN NilIP
    ELSE LET t == IF i > 0 THEN Tail(s) ELSE s
             r == dtoi(t)
         IN IF ~r.ok \/ r.n > 255 THEN NilIP
            ELSE parseIPv4From(Drop(t, r.i), i + 1, Append(p, r.n))
parseIPv4(s) == parseIPv4From(s, 0, <<>>)

\* the tail of parseIPv6: expand the ellipsis into the missing zero bytes
expandEllipsis(ip, i, ellipsis) ==
    IF i < IPv6len
    THEN IF ellipsis < 0 THEN NilIP
         ELSE Take(ip, ellipsis) \o [j \in 1..(IPv6len - i) |-> 0]
                  \o Drop(ip, ellipsis)
    ELSE IF ellipsis >= 0 THEN NilIP
    ELSE ip

RECURSIVE parseIPv6Loop(_, _, _, _)
\* the loop of parseIPv6: ip holds the i bytes read so far
parseIPv6Loop(s, i, ip, ellipsis) ==
    IF i >= IPv6len
    THEN IF Len(s) # 0 THEN NilIP ELSE expandEllipsis(ip, i, ellipsis)
    ELSE LET r == xtoi(s)
         IN IF ~r.ok \/ r.n > 65535 THEN NilIP
            ELSE IF r.i < Len(s) /\ s[r.i + 1] = "."
            THEN \* a trailing dotted quad
                 IF ellipsis < 0 /\ i # IPv6len - IPv4len THEN NilIP
                 ELSE IF i + IPv4len > IPv6len THEN NilIP
                 ELSE LET ip4 == parseIPv4(s)
                      IN IF ip4 = NilIP THEN NilIP
                         ELSE expandEllipsis(ip \o Drop(ip4, 12),
                                             i + IPv4len, ellipsis)
            ELSE LET ip2 == ip \o <<r.n \div 256, r.n % 256>>
                     s2 == Drop(s, r.i)
                 IN IF Len(s2) = 0
                    THEN expandEllipsis(ip2, i + 2, ellipsis)
                    ELSE IF s2[1] # ":" \/ Len(s2) = 1 THEN NilIP
                    ELSE LET s3 == Tail(s2)
                         IN IF s3[1] = ":"
                            THEN IF ellipsis >= 0 THEN NilIP
                                 ELSE IF Len(s3) = 1
                                 THEN expandEllipsis(ip2, i + 2, i + 2)
                                 ELSE parseIPv6Loop(Tail(s3), i + 2, ip2, i + 2)
                            ELSE parseIPv6Loop(s3, i + 2, ip2, ellipsis)

parseIPv6(s) ==
    IF Len(s) >= 2 /\ s[1] = ":" /\ s[2] = ":"
    THEN IF Len(s) = 2 THEN [j \in 1..IPv6len |-> 0]
         ELSE parseIPv6Loop(Drop(s, 2), 0, <<>>, 0)
    ELSE parseIPv6Loop(s, 0, <<>>, -1)

RECURSIVE parseIPScan(_, _)
\* the loop of ParseIP: the first "." or ":" decides the family
parseIPScan(s, i) ==
    IF i > Len(s) THEN NilIP
    ELSE IF s[i] = "." THEN parseIPv4(s)
    ELSE IF s[i] = ":" THEN parseIPv6(s)
    ELSE parseIPScan(s, i + 1)
ParseIP(s) == parseIPScan(s, 1)

(***************************************************************************)
(* net/url.Parse, for text without "@" userinfo and without a bracketed    *)
(* host.  The helpers return the message of their error ("" for none);     *)
(* UrlParse returns [err, url] with err an error value and url the nil     *)
(* pointer (NilURL) on failure.                                            *)
(***************************************************************************)
\* the printable ASCII characters, from 0x20 (space) to 0x7e; the backquote
\* (0x60), which no text of the model holds, is left opaque
Ascii == <<" ", "!", "\"", "#", "$", "%", "&", "'", "(", ")", "*", "+", ",",
           "-", ".", "/", "0", "1", "2", "3", "4", "5", "6", "7", "8", "9",
           ":", ";", "<", "=", ">", "?", "@", "A", "B", "C", "D", "E", "F",
           "G", "H", "I", "J", "K", "L", "M", "N", "O", "P", "Q", "R", "S",
           "T", "U", "V", "W", "X", "Y", "Z", "[", "\\", "]", "^", "_", "?",
           "a", "b", "c", "d", "e", "f", "g", "h", "i", "j", "k", "l", "m",
           "n", "o", "p", "q", "r", "s", "t", "u", "v", "w", "x", "y", "z",
           "{", "|", "}", "~">>
\* the one control character of the model's alphabet (0x0a)
LF == "\n"
IsPrintable(c) == \E i \in 1..Len(Ascii) : Ascii[i] = c
\* the character of a byte value; bytes outside printable ASCII stay opaque
ByteChar(n) == IF n >= 32 /\ n <= 126 THEN Ascii[n - 31] ELSE "?"

NilURL == [nil |-> TRUE]
MkURL(scheme, opaque, host, path, query, frag) ==
    [nil |-> FALSE, Scheme |-> scheme, Opaque |-> opaque, Host |-> host,
     Path |-> path, RawQuery |-> query, Fragment |-> frag]

stringContainsCTLByte(s) == \E i \in 1..Len(s) : ~IsPrintable(s[i])

\* strings.Cut: the text before and after the first sep
Cut(s, sep) ==
    LET i == Index(s, sep)
    IN IF i = 0 THEN [before |-> s, after |-> <<>>, found |-> FALSE]
       ELSE [before |-> Take(s, i - 1), after |-> Drop(s, i), found |-> TRUE]

RECURSIVE LastIndexFrom(_, _, _)
LastIndexFrom(s, c, i) ==
    IF i = 0 THEN 0
    ELSE IF s[i] = c THEN i
    ELSE LastIndexFrom(s, c, i - 1)
LastIndex(s, c) == LastIndexFrom(s, c, Len(s))

ToLowerChar(c) ==
    IF IsUpper(c) THEN LowerLetters[CHOOSE i \in 1..26 : UpperLetters[i] = c]
    ELSE c
ToLower(s) == [i \in 1..Len(s) |-> ToLowerChar(s[i])]

RECURSIVE getSchemeFrom(_, _)
getSchemeFrom(rawURL, i) ==
    IF i > Len(rawURL) THEN [scheme |-> <<>>, path |-> rawURL, err |-> ""]
    ELSE LET c == rawURL[i]
         IN IF IsLetter(c) THEN getSchemeFrom(rawURL, i + 1)
            ELSE IF IsDigit(c) \/ c \in {"+", "-", "."}
            THEN IF i = 1 THEN [scheme |-> <<>>, path |-> rawURL, err |-> ""]
                 ELSE getSchemeFrom(rawURL, i + 1)
            ELSE IF c = ":"
            THEN IF i = 1
                 THEN [scheme |-> <<>>, path |-> <<>>,
                       err |-> "missing protocol scheme"]
                 ELSE [scheme |-> Take(rawURL, i - 1), path |-> Drop(rawURL, i),
                       err |-> ""]
            ELSE [scheme |-> <<>>, path |-> rawURL, err |-> ""]
getScheme(rawURL) == getSchemeFrom(rawURL, 1)

validOptionalPort(port) ==
    IF Len(port) = 0 THEN TRUE
    ELSE IF port[1] # ":" THEN FALSE
    ELSE \A i \in 2..Len(port) : IsDigit(port[i])

\* shouldEscape(c, encodeHost): the characters a host may not hold
shouldEscapeHost(c) ==
    ~(IsLetter(c) \/ IsDigit(c)
      \/ c \in {"-", "_", ".", "~", "!", "$", "&", "'", "(", ")", "*", "+",
                ",", ";", "=", ":", "[", "]", "<", ">", "\""})

RECURSIVE unescapeFrom(_, _, _, _)
\* unescape(s, mode): mode is "host" (encodeHost) or "path" (encodePath)
unescapeFrom(s, mode, i, out) ==
    IF i > Len(s) THEN [err |-> "", s |-> out]
    ELSE IF s[i] = "%"
    THEN IF i + 2 > Len(s) \/ ~IsHexDigit(s[i + 1]) \/ ~IsHexDigit(s[i + 2])
         THEN [err |-> "invalid URL escape", s |-> <<>>]
         ELSE IF mode = "host" /\ HexVal(s[i + 1]) < 8
                 /\ SubSeq(s, i, i + 2) # <<"%", "2", "5">>
         THEN [err |-> "invalid URL escape", s |-> <<>>]
         ELSE unescapeFrom(s, mode, i + 3,
                  Append(out, ByteChar(16 * HexVal(s[i + 1]) + HexVal(s[i + 2]))))
    ELSE IF mode = "host" /\ shouldEscapeHost(s[i])
    THEN [err |-> "invalid character in host name", s |-> <<>>]
    ELSE unescapeFrom(s, mode, i + 1, Append(out, s[i]))
unescape(s, mode) == unescapeFrom(s, mode, 1, <<>>)

parseHost(host) ==
    LET i == LastIndex(host, ":")
    IN IF i # 0 /\ ~validOptionalPort(Drop(host, i - 1))
       THEN [err |-> "invalid port after host", s |-> <<>>]
       ELSE unescape(host, "host")

HasPrefix(s, p) == Len(s) >= Len(p) /\ Take(s, Len(p)) = p

\* parse(rawURL, viaRequest = false)
urlparse(rawURL) ==
    IF stringContainsCTLByte(rawURL)
    THEN [err |-> "invalid control character in URL", url |-> NilURL]
    ELSE IF rawURL = <<"*">>
    THEN [err |-> "", url |-> MkURL(<<>>, <<>>, <<>>, <<"*">>, <<>>, <<>>)]
    ELSE LET sch == getScheme(rawURL)
         IN IF sch.err # "" THEN [err |-> sch.err, url |-> NilURL]
            ELSE LET scheme == ToLower(sch.scheme)
                     q == Cut(sch.path, "?")
                     rest == q.before
                 IN IF ~HasPrefix(rest, <<"/">>) /\ scheme # <<>>
                    THEN [err |-> "", url |-> MkURL(scheme, rest, <<>>, <<>>,
                                                    q.after, <<>>)]
                    ELSE IF ~HasPrefix(rest, <<"/">>)
                            /\ Contains(Cut(rest, "/").before, ":")
                    THEN [err |-> "first path segment in URL cannot contain colon",
                          url |-> NilURL]
                    ELSE LET auth == (scheme # <<>> \/ ~HasPrefix(rest, <<"/", "/", "/">>))
                                     /\ HasPrefix(rest, <<"/", "/">>)
                             a == Drop(rest, 2)
                             k == Index(a, "/")
                             authority == IF k = 0 THEN a ELSE Take(a, k - 1)
                             rest2 == IF ~auth THEN rest
                                      ELSE IF k = 0 THEN <<>> ELSE Drop(a, k - 1)
                             host == IF auth THEN parseHost(authority)
                                     ELSE [err |-> "", s |-> <<>>]
                             path == unescape(rest2, "path")
                         IN IF host.err # "" THEN [err |-> host.err, url |-> NilURL]
                            ELSE IF path.err # "" THEN [err |-> path.err, url |-> NilURL]
                            ELSE [err |-> "", url |-> MkURL(scheme, <<>>, host.s,
                                                            path.s, q.after, <<>>)]

\* url.Parse: split off the fragment, parse, then unescape the fragment;
\* a failure is wrapped as &url.Error{Op: "parse", URL: u, Err: err}
UrlParse(rawURL) ==
    LET f == Cut(rawURL, "#")
        r == urlparse(f.before)
        frag == unescape(f.after, "path")
    IN IF r.err # "" THEN [err |-> MkErr("*url.Error", r.err, f.before),
                           url |-> NilURL]
       ELSE IF f.after = <<>> THEN [err |-> NilErr, url |-> r.url]
       ELSE IF frag.err # "" THEN [err |-> MkErr("*url.Error", frag.err, rawURL),
                                   url |-> NilURL]
       ELSE [err |-> NilErr, url |-> [r.url EXCEPT !.Fragment = frag.s]]

(***************************************************************************)
(* strconv.ParseFloat and strconv.ParseInt (base 10), for text without a   *)
(* base prefix or underscores.  A float64 is [kind, neg, m, e]: kind       *)
(* "finite" is (-1)^neg * m * 10^e with m holding no trailing zero, and    *)
(* kinds "inf" and "nan" are the IEEE specials.  The result of a parser is *)
(* [ok, v].                                                                *)
(***************************************************************************)
FloatZero == [kind |-> "finite", neg |-> FALSE, m |-> 0, e |-> 0]
RECURSIVE normFloat(_, _, _)
normFloat(neg, m, e) ==
    IF m = 0 THEN FloatZero
    ELSE IF m % 10 = 0 THEN normFloat(neg, m \div 10, e + 1)
    ELSE [kind |-> "finite", neg |-> neg, m |-> m, e |-> e]
\* float64(n) of an integer n
FloatOfInt(n) == IF n < 0 THEN normFloat(TRUE, -n, 0) ELSE normFloat(FALSE, n, 0)

\* strconv.special: the spellings of infinity and NaN
special(s) ==
    LET signed == Len(s) > 0 /\ s[1] \in {"+", "-"}
        t == ToLower(IF signed THEN Tail(s) ELSE s)
    IN IF t = <<"i", "n", "f">> \/ t = <<"i", "n", "f", "i", "n", "i", "t", "y">>
       THEN [ok |-> TRUE,
             v |-> [kind |-> "inf", neg |-> signed /\ s[1] = "-", m |-> 0, e |-> 0]]
       ELSE IF ~signed /\ t = <<"n", "a", "n">>
       THEN [ok |-> TRUE, v |-> [kind |-> "nan", neg |-> FALSE, m |-> 0, e |-> 0]]
       ELSE [ok |-> FALSE, v |-> FloatZero]

RECURSIVE readMantissa(_, _, _, _, _, _)
\* the digit loop of strconv.readFloat; frac counts the digits after the "."
readMantissa(s, i, sawdot, sawdigits, m, frac) ==
    IF i <= Len(s) /\ s[i] = "." /\ ~sawdot
    THEN readMantissa(s, i + 1, TRUE, sawdigits, m, frac)
    ELSE IF i <= Len(s) /\ IsDigit(s[i])
    THEN readMantissa(s, i + 1, sawdot, TRUE, m * 10 + DigitVal(s[i]),
                      IF sawdot THEN frac + 1 ELSE frac)
    ELSE [i |-> i, ok |-> sawdigits, m |-> m, frac |-> frac]

RECURSIVE readDigits(_, _, _)
readDigits(s, i, n) ==
    IF i <= Len(s) /\ IsDigit(s[i]) THEN readDigits(s, i + 1, n * 10 + DigitVal(s[i]))
    ELSE [i |-> i, n |-> n]

\* the exponent part of strconv.readFloat, from position i
readExponent(s, i) ==
    IF i <= Len(s) /\ ToLowerChar(s[i]) = "e"
    THEN IF i + 1 > Len(s) THEN [ok |-> FALSE, i |-> i, e |-> 0]
         ELSE LET signed == s[i + 1] \in {"+", "-"}
                  j == IF signed THEN i + 2 ELSE i + 1
              IN IF j > Len(s) \/ ~IsDigit(s[j]) THEN [ok |-> FALSE, i |-> i, e |-> 0]
                 ELSE LET d == readDigits(s, j, 0)
                      IN [ok |-> TRUE, i |-> d.i,
                          e |-> IF s[i + 1] = "-" THEN -d.n ELSE d.n]
    ELSE [ok |-> TRUE, i |-> i, e |-> 0]

ParseFloat(s) ==
    IF special(s).ok THEN special(s)
    ELSE IF Len(s) = 0 THEN [ok |-> FALSE, v |-> FloatZero]
    ELSE LET signed == s[1] \in {"+", "-"}
             mant == readMantissa(s, IF signed THEN 2 ELSE 1, FALSE, FALSE, 0, 0)
             ex == readExponent(s, mant.i)
         IN IF ~mant.ok \/ ~ex.ok \/ ex.i # Len(s) + 1
            THEN [ok |-> FALSE, v |-> FloatZero]
            ELSE [ok |-> TRUE, v |-> normFloat(s[1] = "-", mant.m, ex.e - mant.frac)]

ParseInt(s) ==
    IF Len(s) = 0 THEN [ok |-> FALSE, v |-> 0]
    ELSE LET signed == s[1] \in {"+", "-"}
             t == IF signed THEN Tail(s) ELSE s
         IN IF Len(t) = 0 \/ \E i \in 1..Len(t) : ~IsDigit(t[i])
            THEN [ok |-> FALSE, v |-> 0]
            ELSE [ok |-> TRUE,
                  v |-> IF s[1] = "-" THEN -readDigits(t, 1, 0).n
                        ELSE readDigits(t, 1, 0).n]

(***************************************************************************)
(* encoding/json.  A wire value is [t, v]: t is "absent" (the key is not in *)
(* the object), "null", "string", "number" or "bool", and v its content    *)
(* (text for a string, an integer for a number).  A decoder of one struct  *)
(* field returns [err, v], v being the zero value unless the wire value    *)
(* was stored.                                                             *)
(***************************************************************************)
JAbsent == [t |-> "absent", v |-> <<>>]
JNull == [t |-> "null", v |-> <<>>]
JStr(x) == [t |-> "string", v |-> x]
JNum(n) == [t |-> "number", v |-> n]
JBool(x) == [t |-> "bool", v |-> x]

\* &json.SyntaxError{...}: "invalid character ..."
SyntaxError == MkErr("*json.SyntaxError", "invalid character", <<>>)
\* &json.UnmarshalTypeError{Value: what, ...}
UnmarshalTypeError(what) ==
    MkErr("*json.UnmarshalTypeError", "json: cannot unmarshal", what)
IsNilErr(e) == e.type = "nil"
\* fmt.Errorf("json: invalid use of ,string struct tag, ...")
StringTagError(item) ==
    MkErr("*errors.errorString", "json: invalid use of ,string struct tag", item)

\* a field of Go type string; zero is the zero value of the field's text
jsonString(w, zero) ==
    IF w.t = "string" THEN [err |-> NilErr, v |-> w.v]
    ELSE IF w.t \in {"absent", "null"} THEN [err |-> NilErr, v |-> zero]
    ELSE [err |-> UnmarshalTypeError(<<w.t>>), v |-> zero]
\* a field of Go type int
jsonInt(w) ==
    IF w.t = "number" THEN [err |-> NilErr, v |-> w.v]
    ELSE IF w.t \in {"absent", "null"} THEN [err |-> NilErr, v |-> 0]
    ELSE [err |-> UnmarshalTypeError(<<w.t>>), v |-> 0]
\* a field of Go type float64
jsonFloat(w) ==
    IF w.t = "number" THEN [err |-> NilErr, v |-> FloatOfInt(w.v)]
    ELSE IF w.t \in {"absent", "null"} THEN [err |-> NilErr, v |-> FloatZero]
    ELSE [err |-> UnmarshalTypeError(<<w.t>>), v |-> FloatZero]
\* a field of Go type bool
jsonBool(w) ==
    IF w.t = "bool" THEN [err |-> NilErr, v |-> w.v]
    ELSE IF w.t \in {"absent", "null"} THEN [err |-> NilErr, v |-> FALSE]
    ELSE [err |-> UnmarshalTypeError(<<w.t>>), v |-> FALSE]

\* decodeState.literalStore(item, v, fromQuoted = true) for a numeric v:
\* kind is "float64" or "int", zero its zero value
literalStoreQuoted(item, kind, zero) ==
    IF Len(item) = 0 THEN [err |-> StringTagError(item), v |-> zero]
    ELSE IF item[1] = "n"
    THEN \* the null literal: ignored for a primitive
         IF item = <<"n", "u", "l", "l">> THEN [err |-> NilErr, v |-> zero]
         ELSE [err |-> StringTagError(item), v |-> zero]
    ELSE IF item[1] \in {"t", "f", "\""}
    THEN \* a boolean or a string inside the string: never a number
         [err |-> StringTagError(item), v |-> zero]
    ELSE IF item[1] # "-" /\ ~IsDigit(item[1])
    THEN [err |-> StringTagError(item), v |-> zero]
    ELSE LET r == IF kind = "int" THEN ParseInt(item) ELSE ParseFloat(item)
         IN IF r.ok THEN [err |-> NilErr, v |-> r.v]
            ELSE [err |-> UnmarshalTypeError(item), v |-> zero]

\* a numeric field tagged `json:"...,string"`
jsonQuoted(w, kind, zero) ==
    IF w.t = "string" THEN literalStoreQuoted(w.v, kind, zero)
    ELSE IF w.t \in {"absent", "null"} THEN [err |-> NilErr, v |-> zero]
    ELSE [err |-> StringTagError(<<>>), v |-> zero]

\* the first error of a sequence of field results, NilErr when there is none
RECURSIVE firstError(_)
firstError(rs) ==
    IF Len(rs) = 0 THEN NilErr
    ELSE IF ~IsNilErr(Head(rs).err) THEN Head(rs).err
    ELSE firstError(Tail(rs))

(***************************************************************************)
(* time.  A time.Time is [wall, sec]: wall "unix" is the instant sec       *)
(* seconds after the UTC epoch, and ZeroTime is the zero value time.Time{}. *)
(* A time.Duration is a count of nanoseconds.                              *)
(***************************************************************************)
ZeroTime == [wall |-> "zero", sec |-> 0]
\* Unix that takes the second 0 for a time that was not set
UnixUnlessZero(sec) ==
    IF sec = 0 THEN [wall |-> "zero", sec |-> 0] ELSE [wall |-> "unix", sec |-> sec]
\* time.Unix(sec, 0)
Unix(sec) == [wall |-> "unix", sec |-> sec]
\* time.Second, in nanoseconds
Second == 1000000000

(***************************************************************************)
(* stations.go: the raw station, the Station and Station.UnmarshalJSON.    *)
(* A station wire object is [wellFormed, o]: whether the bytes are         *)
(* well-formed JSON, and the wire value of each key of the object.  The    *)
(* keys that UnmarshalJSON never reads (bssid, essid, ...) are left out.   *)
(***************************************************************************)
\* json.Unmarshal(b, &sta): the raw station, with the first error met
unmarshalStation(b) ==
    LET o == b.o
        f == [ID |-> jsonString(o._id, ""),
              ApMac |-> jsonString(o.ap_mac, <<>>),
              AssocTime |-> jsonInt(o.assoc_time),
              Channel |-> jsonInt(o.channel),
              FirstSeen |-> jsonInt(o.first_seen),
              Hostname |-> jsonString(o.hostname, ""),
              Idletime |-> jsonInt(o.idletime),
              IP |-> jsonString(o.ip, <<>>),
              LastSeen |-> jsonInt(o.last_seen),
              Mac |-> jsonString(o.mac, <<>>),
              Name |-> jsonString(o.name, ""),
              Noise |-> jsonInt(o.noise),
              RoamCount |-> jsonInt(o.roam_count),
              RSSI |-> jsonInt(o.rssi),
              RxBytes |-> jsonInt(o.rx_bytes),
              RxPackets |-> jsonInt(o.rx_packets),
              RxRate |-> jsonInt(o.rx_rate),
              SiteID |-> jsonString(o.site_id, ""),
              TxBytes |-> jsonInt(o.tx_bytes),
              TxPackets |-> jsonInt(o.tx_packets),
              TxPower |-> jsonInt(o.tx_power),
              TxRate |-> jsonInt(o.tx_rate),
              Uptime |-> jsonInt(o.uptime),
              UserID |-> jsonString(o.user_id, "")]
    IN IF ~b.wellFormed THEN [err |-> SyntaxError, sta |-> [x \in {} |-> 0]]
       ELSE [err |-> firstError(<<f.ID, f.ApMac, f.AssocTime, f.Channel,
                                  f.FirstSeen, f.Hostname, f.Idletime, f.IP,
                                  f.LastSeen, f.Mac, f.Name, f.Noise,
                                  f.RoamCount, f.RSSI, f.RxBytes, f.RxPackets,
                                  f.RxRate, f.SiteID, f.TxBytes, f.TxPackets,
                                  f.TxPower, f.TxRate, f.Uptime, f.UserID>>),
             sta |-> [k \in DOMAIN f |-> f[k].v]]

\* the zero value of Station: what new(Station) points to
ZeroStation ==
    [ID |-> "", APMAC |-> NilHW, AssociationTime |-> ZeroTime, Channel |-> 0,
     FirstSeen |-> ZeroTime, Hostname |-> "", IdleTime |-> 0, IP |-> NilIP,
     LastSeen |-> ZeroTime, MAC |-> NilHW, RoamCount |-> 0, Name |-> "",
     Noise |-> 0, RSSI |-> 0, SiteID |-> "", Stats |-> [nil |-> TRUE],
     Uptime |-> 0, UserID |-> ""]

\* the composite literal that UnmarshalJSON assigns to *s
MkStation(sta, apMAC, mac) ==
    [ID |-> sta.ID,
     APMAC |-> apMAC,
     AssociationTime |-> Unix(sta.AssocTime),
     Channel |-> sta.Channel,
     FirstSeen |-> Unix(sta.FirstSeen),
     Hostname |-> sta.Hostname,
     IdleTime |-> sta.Idletime * Second,
     IP |-> ParseIP(sta.IP),
     LastSeen |-> Unix(sta.LastSeen),
     MAC |-> mac,
     Name |-> sta.Name,
     Noise |-> sta.Noise,
     RSSI |-> sta.RSSI,
     RoamCount |-> sta.RoamCount,
     SiteID |-> sta.SiteID,
     Stats |-> [nil |-> FALSE,
                ReceiveBytes |-> sta.RxBytes,
                ReceivePackets |-> sta.RxPackets,
                ReceiveRate |-> sta.RxRate,
                TransmitBytes |-> sta.TxBytes,
                TransmitPackets |-> sta.TxPackets,
                TransmitPower |-> sta.TxPower,
                TransmitRate |-> sta.TxRate],
     Uptime |-> sta.Uptime * Second,
     UserID |-> sta.UserID]

\* stationAPMAC without the test for the empty text: the associated-AP
\* address checked like the station's own
stationAPMACMandatory(sta) == ParseMAC(sta.ApMac)

\* the check of the associated-AP address: ParseMAC's error is returned
\* unless the text is empty
stationAPMAC(sta) ==
    LET r == ParseMAC(sta.ApMac)
    IN IF sta.ApMac # <<>> /\ ~IsNilErr(r.err) THEN [err |-> r.err, hw |-> NilHW]
       ELSE [err |-> NilErr, hw |-> r.hw]

\* stationMAC with the tolerance of stationAPMAC: the empty text passes
stationMACOptional(sta) ==
    LET r == ParseMAC(sta.Mac)
    IN IF sta.Mac # <<>> /\ ~IsNilErr(r.err) THEN [err |-> r.err, hw |-> NilHW]
       ELSE [err |-> NilErr, hw |-> r.hw]

\* the check of the station's own address
stationMAC(sta) == ParseMAC(sta.Mac)

\* stationSteps without the test of json.Unmarshal's error: the checks run
\* on the zero raw station, whose empty mac does not parse
stationStepsUnchecked(s, j) ==
    LET ap == stationAPMAC(j.sta)
        mac == stationMAC(j.sta)
    IN IF ~IsNilErr(j.err)
       THEN [err |-> ParseMAC(<<>>).err, s |-> s, at |-> "mac"]
       ELSE IF ~IsNilErr(ap.err) THEN [err |-> ap.err, s |-> s, at |-> "apMAC"]
       ELSE IF ~IsNilErr(mac.err) THEN [err |-> mac.err, s |-> s, at |-> "mac"]
       ELSE [err |-> NilErr, s |-> MkStation(j.sta, ap.hw, mac.hw), at |-> "end"]

\* stationSteps with the associated-AP address stored in the receiver as soon
\* as it is parsed, before the own address is checked
stationStepsEarlyWrite(s, j) ==
    LET ap == stationAPMAC(j.sta)
        mac == stationMAC(j.sta)
    IN IF ~IsNilErr(j.err) THEN [err |-> j.err, s |-> s, at |-> "json"]
       ELSE IF ~IsNilErr(ap.err) THEN [err |-> ap.err, s |-> s, at |-> "apMAC"]
       ELSE IF ~IsNilErr(mac.err)
       THEN [err |-> mac.err, s |-> [s EXCEPT !.APMAC = ap.hw], at |-> "mac"]
       ELSE [err |-> NilErr, s |-> MkStation(j.sta, ap.hw, mac.hw), at |-> "end"]

\* stationSteps with the station's own address checked above the
\* associated-AP address
stationStepsMACFirst(s, j) ==
    LET ap == stationAPMAC(j.sta)
        mac == stationMAC(j.sta)
    IN IF ~IsNilErr(j.err) THEN [err |-> j.err, s |-> s, at |-> "json"]
       ELSE IF ~IsNilErr(mac.err) THEN [err |-> mac.err, s |-> s, at |-> "mac"]
       ELSE IF ~IsNilErr(ap.err) THEN [err |-> ap.err, s |-> s, at |-> "apMAC"]
       ELSE [err |-> NilErr, s |-> MkStation(j.sta, ap.hw, mac.hw), at |-> "end"]

\* the statements of UnmarshalJSON after json.Unmarshal returned j
stationSteps(s, j) ==
    LET ap == stationAPMAC(j.sta)
        mac == stationMAC(j.sta)
    IN IF ~IsNilErr(j.err) THEN [err |-> j.err, s |-> s, at |-> "json"]
       ELSE IF ~IsNilErr(ap.err) THEN [err |-> ap.err, s |-> s, at |-> "apMAC"]
       ELSE IF ~IsNilErr(mac.err) THEN [err |-> mac.err, s |-> s, at |-> "mac"]
       ELSE [err |-> NilErr, s |-> MkStation(j.sta, ap.hw, mac.hw), at |-> "end"]

\* (s *Station) UnmarshalJSON(b): [err, s, at]: the error, the receiver
\* afterwards, and the step that returned
StationUnmarshalJSON(s, b) ==
    CHOOSE r \in {stationSteps(s, j) : j \in {unmarshalStation(b)}} : TRUE

(***************************************************************************)
(* devices.go: the raw device, the Device and Device.UnmarshalJSON.        *)
(* A device wire object is [wellFormed, o].  A table of o is JAbsent,      *)
(* JNull or JArr of the sequence of its entries; the blocks stat, uplink,  *)
(* system-stats and sys_stats are records of wire values, a block that is  *)
(* absent being a block whose keys all are.  The keys that UnmarshalJSON   *)
(* never reads (cfgversion, radio_ng, ...) are left out.                   *)
(***************************************************************************)
JArr(xs) == [t |-> "array", v |-> xs]

radioNA == "na"
radioNG == "ng"
radio5GHz == "5GHz"
radio24GHz == "2.4GHz"

\* the entries of a table: none for an absent or null table
tableEntries(w) == IF w.t = "array" THEN w.v ELSE <<>>
\* the error of a table that is no array
tableError(w) ==
    IF w.t \in {"absent", "null", "array"} THEN NilErr
    ELSE UnmarshalTypeError(<<w.t>>)

\* one entry of ethernet_table
unmarshalEthernet(e) ==
    [MAC |-> jsonString(e.mac, <<>>), Name |-> jsonString(e.name, "")]
\* one entry of radio_table
unmarshalRadio(e) ==
    [BuiltinAntGain |-> jsonInt(e.builtin_ant_gain),
     BuiltinAntenna |-> jsonBool(e.builtin_antenna),
     MaxTXPower |-> jsonInt(e.max_txpower),
     MinTXPower |-> jsonInt(e.min_txpower),
     Name |-> jsonString(e.name, ""),
     Radio |-> jsonString(e.radio, "")]
\* one entry of radio_table_stats
unmarshalRadioStats(e) ==
    [GuestNumSta |-> jsonInt(e.guest_num_sta),
     Name |-> jsonString(e.name, ""),
     NumSta |-> jsonInt(e.num_sta),
     UserNumSta |-> jsonInt(e.user_num_sta)]

\* the values, and the first error, of a record of field results
fieldValues(f) == [k \in DOMAIN f |-> f[k].v]
fieldError(f) ==
    IF \A k \in DOMAIN f : IsNilErr(f[k].err) THEN NilErr
    ELSE f[CHOOSE k \in DOMAIN f : ~IsNilErr(f[k].err)].err
RECURSIVE entriesError(_)
entriesError(fs) ==
    IF Len(fs) = 0 THEN NilErr
    ELSE IF ~IsNilErr(fieldError(Head(fs))) THEN fieldError(Head(fs))
    ELSE entriesError(Tail(fs))

\* json.Unmarshal(b, &dev): the raw device, with an error met on the way
unmarshalDevice(b) ==
    LET o == b.o
        top == [ID |-> jsonString(o._id, ""),
                Adopted |-> jsonBool(o.adopted),
                InformIP |-> jsonString(o.inform_ip, <<>>),
                InformURL |-> jsonString(o.inform_url, <<>>),
                Model |-> jsonString(o.model, ""),
                Name |-> jsonString(o.name, ""),
                Serial |-> jsonString(o.serial, ""),
                SiteID |-> jsonString(o.site_id, ""),
                Uptime |-> jsonInt(o.uptime),
                Version |-> jsonString(o.version, "")]
        eth == [i \in 1..Len(tableEntries(o.ethernet_table)) |->
                   unmarshalEthernet(tableEntries(o.ethernet_table)[i])]
        rad == [i \in 1..Len(tableEntries(o.radio_table)) |->
                   unmarshalRadio(tableEntries(o.radio_table)[i])]
        rst == [i \in 1..Len(tableEntries(o.radio_table_stats)) |->
                   unmarshalRadioStats(tableEntries(o.radio_table_stats)[i])]
        stat == [k \in DOMAIN o.stat |-> jsonFloat(o.stat[k])]
        uplink == [k \in DOMAIN o.uplink |-> jsonFloat(o.uplink[k])]
        systemStats ==
            [CpuPercentage |-> jsonQuoted(o.system_stats.cpu, "float64", FloatZero),
             MemPercentage |-> jsonQuoted(o.system_stats.mem, "float64", FloatZero),
             Uptime |-> jsonQuoted(o.system_stats.uptime, "int", 0)]
        sysStats ==
            [LoadAvg1 |-> jsonQuoted(o.sys_stats.loadavg_1, "float64", FloatZero),
             LoadAvg15 |-> jsonQuoted(o.sys_stats.loadavg_15, "float64", FloatZero),
             LoadAvg5 |-> jsonQuoted(o.sys_stats.loadavg_5, "float64", FloatZero),
             MemBuffer |-> jsonInt(o.sys_stats.mem_buffer),
             MemTotal |-> jsonInt(o.sys_stats.mem_total),
             MemUsed |-> jsonInt(o.sys_stats.mem_used)]
        errs == <<fieldError(top),
                  tableError(o.ethernet_table), entriesError(eth),
                  tableError(o.radio_table), entriesError(rad),
                  tableError(o.radio_table_stats), entriesError(rst),
                  fieldError(stat), fieldError(uplink),
                  fieldError(systemStats), fieldError(sysStats)>>
    IN IF ~b.wellFormed THEN [err |-> SyntaxError, dev |-> [x \in {} |-> 0]]
       ELSE [err |-> firstError([i \in 1..Len(errs) |-> [err |-> errs[i]]]),
             dev |-> fieldValues(top) @@
                     [EthernetTable |-> [i \in 1..Len(eth) |-> fieldValues(eth[i])],
                      RadioTable |-> [i \in 1..Len(rad) |-> fieldValues(rad[i])],
                      RadioTableStats |-> [i \in 1..Len(rst) |-> fieldValues(rst[i])],
                      Stat |-> fieldValues(stat),
                      Uplink |-> fieldValues(uplink),
                      SystemStats |-> fieldValues(systemStats),
                      SysStats |-> fieldValues(sysStats)]]

\* a Go slice: the nil slice, or a slice holding elems
NilSlice == [nil |-> TRUE, elems |-> <<>>]
\* Slice for a slice declared with var and grown by append: nil while
\* nothing was appended
SliceOfAppends(elems) ==
    IF Len(elems) = 0 THEN [nil |-> TRUE, elems |-> <<>>]
    ELSE [nil |-> FALSE, elems |-> elems]
Slice(elems) == [nil |-> FALSE, elems |-> elems]
\* a Go pointer to a struct: the nil pointer, or the struct with nil FALSE
NilPtr == [nil |-> TRUE]

\* the zero value of Device: what new(Device) points to
ZeroDevice ==
    [ID |-> "", Adopted |-> FALSE, InformIP |-> NilIP, InformURL |-> NilURL,
     Model |-> "", Name |-> "", NICs |-> NilSlice, Radios |-> NilSlice,
     Serial |-> "", SiteID |-> "", Stats |-> NilPtr, Uptime |-> 0,
     Version |-> ""]

\* the check of the inform IP
deviceInformIP(dev) ==
    LET informIP == ParseIP(dev.InformIP)
    IN IF informIP = NilIP
       THEN [err |-> MkErr("*errors.errorString", "failed to parse inform IP",
                           dev.InformIP),
             ip |-> NilIP]
       ELSE [err |-> NilErr, ip |-> informIP]

\* deviceInformURL with the empty text refused
deviceInformURLMandatory(dev) ==
    IF dev.InformURL = <<>>
    THEN [err |-> MkErr("*url.Error", "empty url", dev.InformURL), url |-> NilURL]
    ELSE UrlParse(dev.InformURL)

\* the check of the inform URL
deviceInformURL(dev) == UrlParse(dev.InformURL)

RECURSIVE deviceNICsFromSkip(_, _, _)
\* deviceNICsFrom with continue in the place of return: an entry whose
\* address does not parse is left out
deviceNICsFromSkip(table, i, nics) ==
    IF i > Len(table) THEN [err |-> NilErr, nics |-> nics]
    ELSE LET mac == ParseMAC(table[i].MAC)
         IN IF ~IsNilErr(mac.err) THEN deviceNICsFromSkip(table, i + 1, nics)
            ELSE deviceNICsFromSkip(table, i + 1,
                     Append(nics, [MAC |-> mac.hw, Name |-> table[i].Name]))

RECURSIVE deviceNICsFrom(_, _, _)
\* the loop over dev.EthernetTable: [err, nics], nics being the NICs built
\* when the loop ends or returns
deviceNICsFrom(table, i, nics) ==
    IF i > Len(table) THEN [err |-> NilErr, nics |-> nics]
    ELSE LET mac == ParseMAC(table[i].MAC)
         IN IF ~IsNilErr(mac.err) THEN [err |-> mac.err, nics |-> nics]
            ELSE deviceNICsFrom(table, i + 1,
                     Append(nics, [MAC |-> mac.hw, Name |-> table[i].Name]))
deviceNICs(dev) == deviceNICsFrom(dev.EthernetTable, 1, <<>>)

RECURSIVE radioStatsFromBreak(_, _, _, _)
\* radioStatsFrom with a break after the assignment: the first row of the
\* name is kept
radioStatsFromBreak(rows, name, i, stats) ==
    IF i > Len(rows) THEN stats
    ELSE IF rows[i].Name = name
    THEN [nil |-> FALSE,
          NumberStations |-> rows[i].NumSta,
          NumberUserStations |-> rows[i].UserNumSta,
          NumberGuestStations |-> rows[i].GuestNumSta]
    ELSE radioStatsFromBreak(rows, name, i + 1, stats)

RECURSIVE radioStatsFrom(_, _, _, _)
\* the loop over dev.RadioTableStats for the radio called name: every row of
\* that name overwrites r.Stats
radioStatsFrom(rows, name, i, stats) ==
    IF i > Len(rows) THEN stats
    ELSE IF rows[i].Name = name
    THEN radioStatsFrom(rows, name, i + 1,
             [nil |-> FALSE,
              NumberStations |-> rows[i].NumSta,
              NumberUserStations |-> rows[i].UserNumSta,
              NumberGuestStations |-> rows[i].GuestNumSta])
    ELSE radioStatsFrom(rows, name, i + 1, stats)
\* radioStats with a loop that ends after its first iteration: only the
\* first row is compared
radioStatsFirstRow(rows, name) ==
    IF Len(rows) > 0 /\ rows[1].Name = name
    THEN [nil |-> FALSE,
          NumberStations |-> rows[1].NumSta,
          NumberUserStations |-> rows[1].UserNumSta,
          NumberGuestStations |-> rows[1].GuestNumSta]
    ELSE NilPtr
\* radioStats with r.Stats starting as &RadioStationsStats{} instead of nil
radioStatsZeroValued(rows, name) ==
    radioStatsFrom(rows, name, 1,
        [nil |-> FALSE, NumberStations |-> 0, NumberUserStations |-> 0,
         NumberGuestStations |-> 0])
radioStats(rows, name) == radioStatsFrom(rows, name, 1, NilPtr)

\* radioBand without the switch: the code copied as the band
radioBandCopied(code) == code

\* the switch on rt.Radio: the band, "" when the code is not known
radioBand(code) ==
    IF code = radioNA THEN radio5GHz
    ELSE IF code = radioNG THEN radio24GHz
    ELSE ""

\* the Radio built from one entry of dev.RadioTable
deviceRadio(rt, rows) ==
    [BuiltInAntenna |-> rt.BuiltinAntenna,
     BuiltInAntennaGain |-> rt.BuiltinAntGain,
     MaxTXPower |-> rt.MaxTXPower,
     MinTXPower |-> rt.MinTXPower,
     Name |-> rt.Name,
     Radio |-> radioBand(rt.Radio),
     Stats |-> radioStats(rows, rt.Name)]

\* deviceRadios with a second loop, over dev.RadioTableStats, that appends a
\* Radio for every row
deviceRadiosPhantom(dev) ==
    [i \in 1..Len(dev.RadioTable) |->
        deviceRadio(dev.RadioTable[i], dev.RadioTableStats)]
    \o [k \in 1..Len(dev.RadioTableStats) |->
          [BuiltInAntenna |-> FALSE, BuiltInAntennaGain |-> 0,
           MaxTXPower |-> 0, MinTXPower |-> 0,
           Name |-> dev.RadioTableStats[k].Name, Radio |-> "",
           Stats |-> [nil |-> FALSE,
                      NumberStations |-> dev.RadioTableStats[k].NumSta,
                      NumberUserStations |-> dev.RadioTableStats[k].UserNumSta,
                      NumberGuestStations |-> dev.RadioTableStats[k].GuestNumSta]]]

\* the loop over dev.RadioTable
deviceRadios(dev) ==
    [i \in 1..Len(dev.RadioTable) |->
        deviceRadio(dev.RadioTable[i], dev.RadioTableStats)]

\* &DeviceStats{...}
deviceStats(dev) ==
    [nil |-> FALSE,
     TotalBytes |-> dev.Stat.bytes,
     All |-> [nil |-> FALSE,
              ReceiveBytes |-> dev.Stat.rx_bytes,
              ReceivePackets |-> dev.Stat.rx_packets,
              TransmitBytes |-> dev.Stat.tx_bytes,
              TransmitDropped |-> dev.Stat.tx_dropped,
              TransmitPackets |-> dev.Stat.tx_packets],
     User |-> [nil |-> FALSE,
               ReceiveBytes |-> dev.Stat.user_rx_bytes,
               ReceivePackets |-> dev.Stat.user_rx_packets,
               TransmitBytes |-> dev.Stat.user_tx_bytes,
               TransmitDropped |-> dev.Stat.user_tx_dropped,
               TransmitPackets |-> dev.Stat.user_tx_packets],
     Guest |-> [nil |-> FALSE,
                ReceiveBytes |-> dev.Stat.guest_rx_bytes,
                ReceivePackets |-> dev.Stat.guest_rx_packets,
                TransmitBytes |-> dev.Stat.guest_tx_bytes,
                TransmitDropped |-> dev.Stat.guest_tx_dropped,
                TransmitPackets |-> dev.Stat.guest_tx_packets],
     Uplink |-> [nil |-> FALSE,
                 ReceiveBytes |-> dev.Uplink.rx_bytes,
                 ReceivePackets |-> dev.Uplink.rx_packets,
                 TransmitBytes |-> dev.Uplink.tx_bytes,
                 TransmitPackets |-> dev.Uplink.tx_packets],
     System |-> [nil |-> FALSE,
                 Uptime |-> dev.SystemStats.Uptime,
                 CpuPercentage |-> dev.SystemStats.CpuPercentage,
                 MemPercentage |-> dev.SystemStats.MemPercentage,
                 LoadAvg1 |-> dev.SysStats.LoadAvg1,
                 LoadAvg15 |-> dev.SysStats.LoadAvg15,
                 LoadAvg5 |-> dev.SysStats.LoadAvg5,
                 MemBuffer |-> dev.SysStats.MemBuffer,
                 MemTotal |-> dev.SysStats.MemTotal,
                 MemUsed |-> dev.SysStats.MemUsed]]

\* MkDevice with Stats left nil for a device that sent no byte count
MkDeviceStatsOmitted(dev, informIP, informURL, nics, radios) ==
    [ID |-> dev.ID,
     Adopted |-> dev.Adopted,
     InformIP |-> informIP,
     InformURL |-> informURL,
     Model |-> dev.Model,
     Name |-> dev.Name,
     NICs |-> nics,
     Radios |-> radios,
     Serial |-> dev.Serial,
     SiteID |-> dev.SiteID,
     Uptime |-> dev.Uptime * Second,
     Version |-> dev.Version,
     Stats |-> IF dev.Stat.bytes = FloatZero THEN NilPtr ELSE deviceStats(dev)]

\* the composite literal that UnmarshalJSON assigns to *d
MkDevice(dev, informIP, informURL, nics, radios) ==
    [ID |-> dev.ID,
     Adopted |-> dev.Adopted,
     InformIP |-> informIP,
     InformURL |-> informURL,
     Model |-> dev.Model,
     Name |-> dev.Name,
     NICs |-> nics,
     Radios |-> radios,
     Serial |-> dev.Serial,
     SiteID |-> dev.SiteID,
     Uptime |-> dev.Uptime * Second,
     Version |-> dev.Version,
     Stats |-> deviceStats(dev)]

\* deviceSteps with the loop over dev.EthernetTable moved above url.Parse
deviceStepsNICsFirst(d, j) ==
    LET ip == deviceInformIP(j.dev)
        u == deviceInformURL(j.dev)
        n == deviceNICs(j.dev)
        radios == deviceRadios(j.dev)
    IN IF ~IsNilErr(j.err)
       THEN [err |-> j.err, d |-> d, at |-> "json",
             nics |-> NilSlice, radios |-> NilSlice]
       ELSE IF ~IsNilErr(ip.err)
       THEN [err |-> ip.err, d |-> d, at |-> "informIP",
             nics |-> NilSlice, radios |-> NilSlice]
       ELSE IF ~IsNilErr(n.err)
       THEN [err |-> n.err, d |-> d, at |-> "nics",
             nics |-> Slice(n.nics), radios |-> NilSlice]
       ELSE IF ~IsNilErr(u.err)
       THEN [err |-> u.err, d |-> d, at |-> "informURL",
             nics |-> Slice(n.nics), radios |-> NilSlice]
       ELSE [err |-> NilErr,
             d |-> MkDevice(j.dev, ip.ip, u.url, Slice(n.nics), Slice(radios)),
             at |-> "end", nics |-> Slice(n.nics), radios |-> Slice(radios)]

\* the statements of UnmarshalJSON after json.Unmarshal returned j: at is
\* the step that returned, nics and radios are the local slices at the
\* return (NilSlice while not yet made)
deviceSteps(d, j) ==
    LET ip == deviceInformIP(j.dev)
        u == deviceInformURL(j.dev)
        n == deviceNICs(j.dev)
        radios == deviceRadios(j.dev)
    IN IF ~IsNilErr(j.err)
       THEN [err |-> j.err, d |-> d, at |-> "json",
             nics |-> NilSlice, radios |-> NilSlice]
       ELSE IF ~IsNilErr(ip.err)
       THEN [err |-> ip.err, d |-> d, at |-> "informIP",
             nics |-> NilSlice, radios |-> NilSlice]
       ELSE IF ~IsNilErr(u.err)
       THEN [err |-> u.err, d |-> d, at |-> "informURL",
             nics |-> NilSlice, radios |-> NilSlice]
       ELSE IF ~IsNilErr(n.err)
       THEN [err |-> n.err, d |-> d, at |-> "nics",
             nics |-> Slice(n.nics), radios |-> NilSlice]
       ELSE [err |-> NilErr,
             d |-> MkDevice(j.dev, ip.ip, u.url, Slice(n.nics), Slice(radios)),
             at |-> "end", nics |-> Slice(n.nics), radios |-> Slice(radios)]

\* (d *Device) UnmarshalJSON(b): [err, d, at, nics, radios]: the error and
\* the receiver afterwards, with the step and the locals of deviceSteps
DeviceUnmarshalJSON(d, b) ==
    CHOOSE r \in {deviceSteps(d, j) : j \in {unmarshalDevice(b)}} : TRUE

(***************************************************************************)
(* alarms.go: the raw alarm, the Alarm and Alarm.UnmarshalJSON, as the     *)
(* specification (sections 2 and 4.4) and TestAlarmUnmarshalJSON describe  *)
(* them: the triggering AP's address is checked with net.ParseMAC, then    *)
(* the datetime is parsed with time.Parse in the layout time.RFC3339       *)
(* ("2006-01-02T15:04:05Z07:00"), then the Alarm is written.               *)
(***************************************************************************)
\* &time.ParseError{...}: "parsing time ..."
ParseError(value) == MkErr("*time.ParseError", "parsing time", value)

\* the number that the n digits of s from position i spell; -1 when a
\* character is missing or is no digit
RECURSIVE atoiFixed(_, _, _, _)
atoiFixed(s, i, n, acc) ==
    IF n = 0 THEN acc
    ELSE IF i > Len(s) \/ ~IsDigit(s[i]) THEN -1
    ELSE atoiFixed(s, i + 1, n - 1, acc * 10 + DigitVal(s[i]))

isLeap(year) == year % 4 = 0 /\ (year % 100 # 0 \/ year % 400 = 0)
\* the number of days of the month of the year
daysIn(month, year) ==
    IF month = 2 THEN (IF isLeap(year) THEN 29 ELSE 28)
    ELSE IF month \in {4, 6, 9, 11} THEN 30
    ELSE 31
\* the number of days from 1970-01-01 to the day of the civil date
daysSinceEpoch(year, month, day) ==
    LET y == IF month <= 2 THEN year - 1 ELSE year
        era == y \div 400
        yoe == y - era * 400
        mp == IF month > 2 THEN month - 3 ELSE month + 9
        doy == (153 * mp + 2) \div 5 + day - 1
        doe == yoe * 365 + yoe \div 4 - yoe \div 100 + doy
    IN era * 146097 + doe - 719468

\* the end of the fraction of a second that starts at position i of s (a
\* period and digits), i itself when there is none
RECURSIVE fractionEnd(_, _)
fractionEnd(s, i) ==
    IF i <= Len(s) /\ IsDigit(s[i]) THEN fractionEnd(s, i + 1) ELSE i
afterFraction(s, i) ==
    IF i + 1 <= Len(s) /\ s[i] = "." /\ IsDigit(s[i + 1])
    THEN fractionEnd(s, i + 1)
    ELSE i
\* the nanoseconds that the digits of s from position i spell as a fraction
\* of a second, scale being the weight of the digit at i
RECURSIVE fractionNanos(_, _, _)
fractionNanos(s, i, scale) ==
    IF i <= Len(s) /\ IsDigit(s[i])
    THEN DigitVal(s[i]) * scale + fractionNanos(s, i + 1, scale \div 10)
    ELSE 0

\* the zone that starts at position i of s: [ok, offset, next], the offset
\* in seconds east of UTC
parseZone(s, i) ==
    IF i > Len(s) THEN [ok |-> FALSE, offset |-> 0, next |-> i]
    ELSE IF s[i] = "Z" THEN [ok |-> TRUE, offset |-> 0, next |-> i + 1]
    ELSE IF s[i] \in {"+", "-"}
    THEN LET hh == atoiFixed(s, i + 1, 2, 0)
             mm == atoiFixed(s, i + 4, 2, 0)
         IN IF hh < 0 \/ mm < 0 \/ i + 3 > Len(s) \/ s[i + 3] # ":"
               \/ hh > 23 \/ mm > 59
            THEN [ok |-> FALSE, offset |-> 0, next |-> i]
            ELSE [ok |-> TRUE,
                  offset |-> (IF s[i] = "-" THEN -1 ELSE 1) * (hh * 3600 + mm * 60),
                  next |-> i + 6]
    ELSE [ok |-> FALSE, offset |-> 0, next |-> i]

\* time.Parse(time.RFC3339, s): [err, t]; a time with a fraction of a second
\* holds it in nsec
TimeParse(s) ==
    LET year == atoiFixed(s, 1, 4, 0)
        month == atoiFixed(s, 6, 2, 0)
        day == atoiFixed(s, 9, 2, 0)
        hour == atoiFixed(s, 12, 2, 0)
        min == atoiFixed(s, 15, 2, 0)
        sec == atoiFixed(s, 18, 2, 0)
        zone == parseZone(s, afterFraction(s, 20))
        unix == daysSinceEpoch(year, month, day) * 86400
                    + hour * 3600 + min * 60 + sec - zone.offset
    IN IF \/ Len(s) < 20
          \/ year < 0 \/ month < 0 \/ day < 0 \/ hour < 0 \/ min < 0 \/ sec < 0
          \/ s[5] # "-" \/ s[8] # "-" \/ s[11] # "T" \/ s[14] # ":" \/ s[17] # ":"
          \/ month < 1 \/ month > 12 \/ day < 1 \/ day > daysIn(month, year)
          \/ hour > 23 \/ min > 59 \/ sec > 59
          \/ ~zone.ok \/ zone.next # Len(s) + 1
       THEN [err |-> ParseError(s), t |-> ZeroTime]
       ELSE [err |-> NilErr,
             t |-> IF afterFraction(s, 20) = 20
                   THEN Unix(unix)
                   ELSE [wall |-> "unix", sec |-> unix,
                         nsec |-> fractionNanos(s, 21, 100000000)]]

\* json.Unmarshal(b, &al): the raw alarm, with the first error met
unmarshalAlarm(b) ==
    LET o == b.o
        f == [ID |-> jsonString(o._id, ""),
              AP |-> jsonString(o.ap, <<>>),
              APName |-> jsonString(o.ap_name, ""),
              DateTime |-> jsonString(o.datetime, <<>>),
              Key |-> jsonString(o.key, ""),
              Msg |-> jsonString(o.msg, ""),
              SiteID |-> jsonString(o.site_id, ""),
              Subsystem |-> jsonString(o.subsystem, "")]
    IN IF ~b.wellFormed THEN [err |-> SyntaxError, al |-> [x \in {} |-> 0]]
       ELSE [err |-> firstError(<<f.ID, f.AP, f.APName, f.DateTime, f.Key,
                                  f.Msg, f.SiteID, f.Subsystem>>),
             al |-> [k \in DOMAIN f |-> f[k].v]]

\* the zero value of Alarm: what new(Alarm) points to
ZeroAlarm ==
    [ID |-> "", APMAC |-> NilHW, APName |-> "", DateTime |-> ZeroTime,
     Key |-> "", Message |-> "", SiteID |-> "", Subsystem |-> ""]

\* the composite literal that UnmarshalJSON assigns to *a
MkAlarm(al, mac, t) ==
    [ID |-> al.ID, APMAC |-> mac, APName |-> al.APName, DateTime |-> t,
     Key |-> al.Key, Message |-> al.Msg, SiteID |-> al.SiteID,
     Subsystem |-> al.Subsystem]

\* the check of the triggering AP's address
alarmAPMAC(al) == ParseMAC(al.AP)
\* alarmDateTime with the error of time.Parse dropped: a text that is no
\* time leaves the zero time
alarmDateTimeLenient(al) ==
    LET r == TimeParse(al.DateTime)
    IN IF IsNilErr(r.err) THEN r ELSE [err |-> NilErr, t |-> ZeroTime]

\* the check of the datetime
alarmDateTime(al) == TimeParse(al.DateTime)

\* alarmSteps with the datetime parsed above the address
alarmStepsTimeFirst(a, j) ==
    LET mac == alarmAPMAC(j.al)
        t == alarmDateTime(j.al)
    IN IF ~IsNilErr(j.err) THEN [err |-> j.err, a |-> a, at |-> "json"]
       ELSE IF ~IsNilErr(t.err) THEN [err |-> t.err, a |-> a, at |-> "dateTime"]
       ELSE IF ~IsNilErr(mac.err) THEN [err |-> mac.err, a |-> a, at |-> "apMAC"]
       ELSE [err |-> NilErr, a |-> MkAlarm(j.al, mac.hw, t.t), at |-> "end"]

\* the statements of UnmarshalJSON after json.Unmarshal returned j
alarmSteps(a, j) ==
    LET mac == alarmAPMAC(j.al)
        t == alarmDateTime(j.al)
    IN IF ~IsNilErr(j.err) THEN [err |-> j.err, a |-> a, at |-> "json"]
       ELSE IF ~IsNilErr(mac.err) THEN [err |-> mac.err, a |-> a, at |-> "apMAC"]
       ELSE IF ~IsNilErr(t.err) THEN [err |-> t.err, a |-> a, at |-> "dateTime"]
       ELSE [err |-> NilErr, a |-> MkAlarm(j.al, mac.hw, t.t), at |-> "end"]

\* (a *Alarm) UnmarshalJSON(b): [err, a, at]
AlarmUnmarshalJSON(a, b) ==
    CHOOSE r \in {alarmSteps(a, j) : j \in {unmarshalAlarm(b)}} : TRUE

(***************************************************************************)
(* The texts the wire objects of the model hold.                           *)
(***************************************************************************)
\* "de:ad:be:ef:de:ad": the address of the tests
MacDEAD == <<"d", "e", ":", "a", "d", ":", "b", "e", ":", "e", "f", ":", "d", "e", ":", "a", "d">>
\* "AB-AD-1D-EA-AB-AD": upper case, hyphens
MacUpperHyphen == <<"A", "B", "-", "A", "D", "-", "1", "D", "-", "E", "A", "-", "A", "B", "-", "A", "D">>
\* "dead.beef.0001": the dotted form
MacDotted == <<"d", "e", "a", "d", ".", "b", "e", "e", "f", ".", "0", "0", "0", "1">>
\* "00:00:00:00:00:00": well-formed, all bytes zero
MacZero == <<"0", "0", ":", "0", "0", ":", "0", "0", ":", "0", "0", ":", "0", "0", ":", "0", "0">>
\* "foo": the malformed address of the tests
MacFoo == <<"f", "o", "o">>
\* "de:ad-be:ef:de:ad": two different separators
MacMixed == <<"d", "e", ":", "a", "d", "-", "b", "e", ":", "e", "f", ":", "d", "e", ":", "a", "d">>
\* "de:ad:be:ef:de:ag": a character that is no hex digit
MacNotHex == <<"d", "e", ":", "a", "d", ":", "b", "e", ":", "e", "f", ":", "d", "e", ":", "a", "g">>
\* "de:ad:be:ef:de": five groups
MacShort == <<"d", "e", ":", "a", "d", ":", "b", "e", ":", "e", "f", ":", "d", "e">>
\* "192.168.1.2": the address of the tests
IPv4Text == <<"1", "9", "2", ".", "1", "6", "8", ".", "1", ".", "2">>
\* "fe80::1": an IPv6 literal with an ellipsis
IPv6Text == <<"f", "e", "8", "0", ":", ":", "1">>
\* "::ffff:10.0.0.1": an IPv6 literal with a trailing dotted quad
IPMapped == <<":", ":", "f", "f", "f", "f", ":", "1", "0", ".", "0", ".", "0", ".", "1">>
\* "foo": the invalid literal of the tests
IPFoo == <<"f", "o", "o">>
\* "192.168.1.256": an octet above 255
IPBigOctet == <<"1", "9", "2", ".", "1", "6", "8", ".", "1", ".", "2", "5", "6">>
\* "192.168.1": a missing octet
IPThreeOctets == <<"1", "9", "2", ".", "1", "6", "8", ".", "1">>
\* "1::2::3": two ellipses
IPTwoEllipses == <<"1", ":", ":", "2", ":", ":", "3">>
EmptyText == <<>>
MacTexts == {EmptyText, MacDEAD, MacUpperHyphen, MacDotted, MacZero, MacFoo, MacMixed, MacNotHex, MacShort}
IPTexts == {EmptyText, IPv4Text, IPv6Text, IPMapped, IPFoo, IPBigOctet, IPThreeOctets, IPTwoEllipses}

\* "http://192.168.1.1:8080/inform": the URL of the tests
URLInform == <<"h", "t", "t", "p", ":", "/", "/", "1", "9", "2", ".", "1", "6", "8", ".", "1", ".", "1", ":", "8", "0", "8", "0", "/", "i", "n", "f", "o", "r", "m">>
\* "inform": a relative reference: no scheme, no host
URLRelative == <<"i", "n", "f", "o", "r", "m">>
\* ":foo": a colon with no scheme before it
URLNoScheme == <<":", "f", "o", "o">>
\* "http://h:x": a port that is no number
URLBadPort == <<"h", "t", "t", "p", ":", "/", "/", "h", ":", "x">>
\* "http://a b/": a space in the host
URLSpaceInHost == <<"h", "t", "t", "p", ":", "/", "/", "a", " ", "b", "/">>
\* "http://h/%zz": a percent sign with no two hex digits
URLBadEscape == <<"h", "t", "t", "p", ":", "/", "/", "h", "/", "%", "z", "z">>
\* "1:2": a colon in the first segment of a relative path
URLColonSegment == <<"1", ":", "2">>
\* "http://h/\n": a control character
URLControl == <<"h", "t", "t", "p", ":", "/", "/", "h", "/", LF>>
\* "55.7": the cpu of the tests
NumCPU == <<"5", "5", ".", "7">>
\* "12": an integer
NumUptime == <<"1", "2">>
\* "1e2": a number with an exponent
NumExp == <<"1", "e", "2">>
\* "abc": letters
NumAbc == <<"a", "b", "c">>
\* "null": the text null
NumNull == <<"n", "u", "l", "l">>
\* "-Inf": the spelling of negative infinity
NumNegInf == <<"-", "I", "n", "f">>
\* "1e": an exponent with no digits
NumBadExp == <<"1", "e">>
\* "12x": a number followed by a letter
NumTrailing == <<"1", "2", "x">>
\* "2016-01-01T00:00:00Z": the datetime of the tests
TimeOfTest == <<"2", "0", "1", "6", "-", "0", "1", "-", "0", "1", "T", "0", "0", ":", "0", "0", ":", "0", "0", "Z">>
\* "2016-01-01T01:00:00+01:00": the same instant, one hour east of UTC
TimeEast == <<"2", "0", "1", "6", "-", "0", "1", "-", "0", "1", "T", "0", "1", ":", "0", "0", ":", "0", "0", "+", "0", "1", ":", "0", "0">>
\* "2016-02-29T23:59:59.5Z": a leap day, with a fraction of a second
TimeFraction == <<"2", "0", "1", "6", "-", "0", "2", "-", "2", "9", "T", "2", "3", ":", "5", "9", ":", "5", "9", ".", "5", "Z">>
\* "foo": the datetime of the test "invalid DateTime"
TimeFoo == <<"f", "o", "o">>
\* "2016-01-01 00:00:00": a space and no zone
TimeSpace == <<"2", "0", "1", "6", "-", "0", "1", "-", "0", "1", " ", "0", "0", ":", "0", "0", ":", "0", "0">>
\* "2016-01-01T00:00:00": no zone
TimeNoZone == <<"2", "0", "1", "6", "-", "0", "1", "-", "0", "1", "T", "0", "0", ":", "0", "0", ":", "0", "0">>
\* "2016-13-01T00:00:00Z": month 13
TimeBadMonth == <<"2", "0", "1", "6", "-", "1", "3", "-", "0", "1", "T", "0", "0", ":", "0", "0", ":", "0", "0", "Z">>
\* "2015-02-29T00:00:00Z": a day that 2015 does not have
TimeBadDay == <<"2", "0", "1", "5", "-", "0", "2", "-", "2", "9", "T", "0", "0", ":", "0", "0", ":", "0", "0", "Z">>
\* "2016-01-01T00:00:00+0100": an offset with no colon
TimeBadOffset == <<"2", "0", "1", "6", "-", "0", "1", "-", "0", "1", "T", "0", "0", ":", "0", "0", ":", "0", "0", "+", "0", "1", "0", "0">>
TimeTexts ==
    {EmptyText, TimeOfTest, TimeEast, TimeFraction, TimeFoo, TimeSpace,
     TimeNoZone, TimeBadMonth, TimeBadDay, TimeBadOffset}
URLTexts == {EmptyText, URLInform, URLRelative, URLNoScheme, URLBadPort, URLSpaceInHost, URLBadEscape, URLColonSegment, URLControl}
NumTexts == {EmptyText, NumCPU, NumUptime, NumExp, NumAbc, NumNull, NumNegInf, NumBadExp, NumTrailing}


(***************************************************************************)
(* The wire objects of the model.                                          *)
(***************************************************************************)
\* bytes that are not well-formed JSON, such as the "<>" of the tests
Malformed == [wellFormed |-> FALSE, o |-> <<>>]
Object(o) == [wellFormed |-> TRUE, o |-> o]

\* the wire values of a hardware address, an IP address, a URL and a number
\* sent as a string: absent, of the wrong JSON type, or a text
MacWire == {JAbsent, JNum(1)} \cup {JStr(t) : t \in MacTexts}
IPWire == {JAbsent, JNum(1)} \cup {JStr(t) : t \in IPTexts}
URLWire == {JAbsent} \cup {JStr(t) : t \in URLTexts}
NumWire == {JAbsent, JNull, JNum(5)} \cup {JStr(t) : t \in NumTexts}

\* the keys of a station wire object besides mac, ap_mac and ip
StationAbsent ==
    [_id |-> JAbsent, assoc_time |-> JAbsent, channel |-> JAbsent,
     first_seen |-> JAbsent, hostname |-> JAbsent, idletime |-> JAbsent,
     last_seen |-> JAbsent, name |-> JAbsent, noise |-> JAbsent,
     roam_count |-> JAbsent, rssi |-> JAbsent, rx_bytes |-> JAbsent,
     rx_packets |-> JAbsent, rx_rate |-> JAbsent, site_id |-> JAbsent,
     tx_bytes |-> JAbsent, tx_packets |-> JAbsent, tx_power |-> JAbsent,
     tx_rate |-> JAbsent, uptime |-> JAbsent, user_id |-> JAbsent]
\* the "OK" object of TestStationUnmarshalJSON
StationOfTest ==
    [StationAbsent EXCEPT
        !._id = JStr("abcdef1234567890"), !.channel = JNum(1),
        !.hostname = JStr("somehost"), !.roam_count = JNum(1),
        !.site_id = JStr("somesite"), !.rx_bytes = JNum(80),
        !.rx_packets = JNum(4), !.rx_rate = JNum(1024), !.tx_bytes = JNum(20),
        !.tx_packets = JNum(1), !.tx_power = JNum(10), !.tx_rate = JNum(1024),
        !.uptime = JNum(2), !.user_id = JStr("someuser")]
\* an object with its times set
StationTimed ==
    [StationOfTest EXCEPT
        !.assoc_time = JNum(1451606400), !.first_seen = JNum(1451606300),
        !.last_seen = JNum(1451606500), !.idletime = JNum(1),
        !.name = JStr("laptop"), !.noise = JNum(-90), !.rssi = JNum(30)]
StationProfiles == {StationAbsent, StationOfTest, StationTimed}

StationObject(mac, apMac, ip, rest) ==
    Object(rest @@ [mac |-> mac, ap_mac |-> apMac, ip |-> ip])

StationInputs ==
    {Malformed} \cup
    {StationObject(mac, apMac, ip, rest) :
        mac \in MacWire, apMac \in MacWire, ip \in IPWire,
        rest \in StationProfiles}

\* all sequences over S of length at most n
SeqsUpTo(S, n) == UNION {[1..k -> S] : k \in 0..n}
\* the wire values of a table whose entries are drawn from S
TableWire(S, n) == {JAbsent} \cup {JArr(t) : t \in SeqsUpTo(S, n)}

EthernetEntries ==
    {[mac |-> JStr(MacDEAD), name |-> JStr("eth0")],
     [mac |-> JStr(MacUpperHyphen), name |-> JStr("eth1")],
     [mac |-> JStr(MacFoo), name |-> JStr("eth2")],
     [mac |-> JAbsent, name |-> JStr("eth3")]}

RadioEntry(name, radio) ==
    [builtin_ant_gain |-> JNum(1), builtin_antenna |-> JBool(TRUE),
     max_txpower |-> JNum(10), min_txpower |-> JNum(1),
     name |-> name, radio |-> radio]
RadioEntries ==
    {RadioEntry(JStr("wlan0"), JStr("ng")), RadioEntry(JStr("wlan1"), JStr("na")),
     RadioEntry(JStr("wlan0"), JStr("ac")), RadioEntry(JStr("wlan1"), JAbsent)}

StatsRow(name, numSta, userNumSta, guestNumSta) ==
    [name |-> JStr(name), num_sta |-> JNum(numSta),
     user_num_sta |-> JNum(userNumSta), guest_num_sta |-> JNum(guestNumSta)]
StatsRows ==
    {StatsRow("wlan0", 3, 2, 1), StatsRow("wlan1", 5, 1, 4),
     StatsRow("wlan2", 7, 7, 0), StatsRow("wlan0", 0, 0, 0)}

\* the numbers sent as strings: the blocks system-stats and sys_stats
NumKeys == {"cpu", "mem", "uptime", "loadavg_1", "loadavg_5", "loadavg_15"}
NumsAbsent == [k \in NumKeys |-> JAbsent]
\* the values of TestDeviceUnmarshalJSON, shortened
NumsOfTest ==
    [cpu |-> JStr(NumCPU), mem |-> JStr(NumCPU), uptime |-> JStr(NumUptime),
     loadavg_1 |-> JStr(NumExp), loadavg_5 |-> JStr(NumCPU),
     loadavg_15 |-> JStr(NumCPU)]
\* at most one key differs from the values of the test
NumProfiles ==
    {NumsAbsent, NumsOfTest} \cup
    {[NumsOfTest EXCEPT ![k] = w] : k \in NumKeys, w \in NumWire}

StatAbsent ==
    [bytes |-> JAbsent, rx_bytes |-> JAbsent, rx_packets |-> JAbsent,
     tx_bytes |-> JAbsent, tx_dropped |-> JAbsent, tx_packets |-> JAbsent,
     user_rx_bytes |-> JAbsent, user_rx_packets |-> JAbsent,
     user_tx_bytes |-> JAbsent, user_tx_dropped |-> JAbsent,
     user_tx_packets |-> JAbsent, guest_rx_bytes |-> JAbsent,
     guest_rx_packets |-> JAbsent, guest_tx_bytes |-> JAbsent,
     guest_tx_dropped |-> JAbsent, guest_tx_packets |-> JAbsent]
\* the stat block of TestDeviceUnmarshalJSON
StatOfTest ==
    [bytes |-> JNum(100), rx_bytes |-> JNum(80), rx_packets |-> JNum(4),
     tx_bytes |-> JNum(20), tx_dropped |-> JNum(1), tx_packets |-> JNum(1),
     user_rx_bytes |-> JNum(80), user_rx_packets |-> JNum(4),
     user_tx_bytes |-> JNum(20), user_tx_dropped |-> JNum(1),
     user_tx_packets |-> JNum(1), guest_rx_bytes |-> JNum(101),
     guest_rx_packets |-> JNum(5), guest_tx_bytes |-> JNum(40),
     guest_tx_dropped |-> JNum(7), guest_tx_packets |-> JNum(9)]
UplinkAbsent ==
    [rx_bytes |-> JAbsent, rx_packets |-> JAbsent, tx_bytes |-> JAbsent,
     tx_packets |-> JAbsent]
UplinkOfTest ==
    [rx_bytes |-> JNum(81), rx_packets |-> JNum(5), tx_bytes |-> JNum(21),
     tx_packets |-> JNum(2)]

\* the keys of a device wire object besides the addresses, the tables and
\* the numbers sent as strings
DeviceAbsent ==
    [_id |-> JAbsent, adopted |-> JAbsent, model |-> JAbsent, name |-> JAbsent,
     serial |-> JAbsent, site_id |-> JAbsent, uptime |-> JAbsent,
     version |-> JAbsent, stat |-> StatAbsent, uplink |-> UplinkAbsent,
     mem_buffer |-> JAbsent, mem_total |-> JAbsent, mem_used |-> JAbsent]
\* the "OK" object of TestDeviceUnmarshalJSON
DeviceOfTest ==
    [_id |-> JStr("abcdef1234567890"), adopted |-> JBool(TRUE),
     model |-> JStr("uap1000"), name |-> JStr("AP"),
     serial |-> JStr("deadbeef0123456789"), site_id |-> JStr("default"),
     uptime |-> JNum(2), version |-> JStr("1.0.0"), stat |-> StatOfTest,
     uplink |-> UplinkOfTest, mem_buffer |-> JNum(0),
     mem_total |-> JNum(262516736), mem_used |-> JNum(168779776)]
DeviceProfiles == {DeviceAbsent, DeviceOfTest}

DeviceObject(informIP, informURL, eth, radios, rows, nums, rest) ==
    Object([_id |-> rest._id, adopted |-> rest.adopted, model |-> rest.model,
            name |-> rest.name, serial |-> rest.serial,
            site_id |-> rest.site_id, uptime |-> rest.uptime,
            version |-> rest.version, stat |-> rest.stat,
            uplink |-> rest.uplink,
            inform_ip |-> informIP, inform_url |-> informURL,
            ethernet_table |-> eth, radio_table |-> radios,
            radio_table_stats |-> rows,
            system_stats |-> [cpu |-> nums.cpu, mem |-> nums.mem,
                              uptime |-> nums.uptime],
            sys_stats |-> [loadavg_1 |-> nums.loadavg_1,
                           loadavg_5 |-> nums.loadavg_5,
                           loadavg_15 |-> nums.loadavg_15,
                           mem_buffer |-> rest.mem_buffer,
                           mem_total |-> rest.mem_total,
                           mem_used |-> rest.mem_used]])

\* The device wire objects, in four families: the inform IP and URL with a
\* short ethernet table; the numbers sent as strings; the ethernet tables;
\* the radio tables with the radio statistics tables.
DeviceInputs ==
    {Malformed}
    \cup {DeviceObject(ip, url, eth, JAbsent, JAbsent, nums, DeviceAbsent) :
            ip \in IPWire, url \in URLWire,
            eth \in TableWire(EthernetEntries, 1),
            nums \in {NumsAbsent, NumsOfTest}}
    \cup {DeviceObject(ip, url, JAbsent, JAbsent, JAbsent, nums, DeviceOfTest) :
            ip \in {JAbsent, JStr(IPFoo), JStr(IPv4Text)},
            url \in {JAbsent, JStr(URLNoScheme), JStr(URLInform)},
            nums \in NumProfiles}
    \cup {DeviceObject(JStr(IPv4Text), JStr(URLInform), eth,
                       JArr(<<RadioEntry(JStr("wlan0"), JStr("ng"))>>),
                       JArr(<<StatsRow("wlan0", 3, 2, 1)>>), NumsOfTest, rest) :
            eth \in TableWire(EthernetEntries, MaxNICs),
            rest \in DeviceProfiles}
    \cup {DeviceObject(JStr(IPv4Text), JStr(URLInform), JAbsent, radios, rows,
                       NumsAbsent, DeviceOfTest) :
            radios \in TableWire(RadioEntries, MaxRadios),
            rows \in TableWire(StatsRows, MaxStatRows)}

\* the wire values of a datetime
TimeWire == {JAbsent, JNum(1)} \cup {JStr(t) : t \in TimeTexts}
\* the keys of an alarm wire object besides ap and datetime
AlarmAbsent ==
    [_id |-> JAbsent, ap_name |-> JAbsent, key |-> JAbsent, msg |-> JAbsent,
     site_id |-> JAbsent, subsystem |-> JAbsent]
\* the "OK" object of TestAlarmUnmarshalJSON
AlarmOfTest ==
    [_id |-> JStr("abcdef1234567890"), ap_name |-> JStr("ap001"),
     key |-> JStr("EVT AP Lost Contact"), msg |-> JStr("ap001 was disconnected"),
     site_id |-> JStr("default"), subsystem |-> JStr("wlan")]
AlarmProfiles == {AlarmAbsent, AlarmOfTest}

AlarmObject(ap, datetime, rest) ==
    Object(rest @@ [ap |-> ap, datetime |-> datetime])

AlarmInputs ==
    {Malformed} \cup
    {AlarmObject(ap, datetime, rest) :
        ap \in MacWire, datetime \in TimeWire, rest \in AlarmProfiles}

(***************************************************************************)
(* Client.  client.go is not among the sources: do is modelled from the    *)
(* transport boundary of spec.md (section 6) and from the client tests,    *)
(* Client.Stations and Client.Devices from their code.                     *)
(***************************************************************************)
\* the most requests one client sends
MaxRequests == 3
\* the most elements of the data array of an envelope
MaxData == 2

\* the constant the test handlers set as Content-Type
jsonContentType == "application/json;charset=UTF-8"
\* what net/http detects for a body written with no Content-Type set
textContentType == "text/plain; charset=utf-8"

StatusInternalServerError == 500
Statuses == {200, 204, 404, StatusInternalServerError}

BadContentTypeError(cType) ==
    MkErr("*errors.errorString", "unexpected content type", cType)
BadStatusError(code) ==
    MkErr("*errors.errorString", "unexpected HTTP status code", code)

\* the cookie jar of the client's http.Client: one cookie per name, a cookie
\* set again replaces the one held
storeCookiesOfLastResponse(jar, cookies) == cookies

storeCookies(jar, cookies) ==
    {c \in jar : \A x \in cookies : x.name # c.name} \cup cookies

\* the cookies the http.Client adds to a request
requestCookies(jar) == jar

\* the checks of do between receiving the response and decoding its body
checkResponseStatusUnchecked(res, out) ==
    IF res.contentType # jsonContentType
    THEN BadContentTypeError(res.contentType)
    ELSE NilErr

checkResponseDecodedOnly(res, out) ==
    IF out # "nil" /\ res.contentType # jsonContentType
    THEN BadContentTypeError(res.contentType)
    ELSE IF res.status > 299 \/ res.status < 200
         THEN BadStatusError(res.status)
         ELSE NilErr

checkResponse(res, out) ==
    IF res.contentType # jsonContentType
    THEN BadContentTypeError(res.contentType)
    ELSE IF res.status > 299 \/ res.status < 200
         THEN BadStatusError(res.status)
         ELSE NilErr

\* encoding/json decoding the array "data" into a []*Station: each element
\* is appended as a new Station and handed to its UnmarshalJSON; the decode
\* returns at the first error, leaving the slice as it then stands
RECURSIVE decodeStations(_, _, _)
decodeStations(elems, i, acc) ==
    IF i > Len(elems)
    THEN [err |-> NilErr, v |-> Slice(acc)]
    ELSE CHOOSE x \in
            {IF IsNilErr(r.err)
             THEN decodeStations(elems, i + 1, Append(acc, r.s))
             ELSE [err |-> r.err, v |-> Slice(Append(acc, r.s))] :
                r \in {StationUnmarshalJSON(ZeroStation, elems[i])}} : TRUE

\* the same into a []*Device
RECURSIVE decodeDevices(_, _, _)
decodeDevices(elems, i, acc) ==
    IF i > Len(elems)
    THEN [err |-> NilErr, v |-> Slice(acc)]
    ELSE CHOOSE x \in
            {IF IsNilErr(r.err)
             THEN decodeDevices(elems, i + 1, Append(acc, r.d))
             ELSE [err |-> r.err, v |-> Slice(Append(acc, r.d))] :
                r \in {DeviceUnmarshalJSON(ZeroDevice, elems[i])}} : TRUE

\* json decoding of the body into the target out: "struct" is the empty
\* struct of the tests, "stations" and "devices" the envelopes of the
\* fetchers, "raw" the envelope of []json.RawMessage
decodeBody(body, out) ==
    IF ~body.wellFormed THEN [err |-> SyntaxError, v |-> NilSlice]
    ELSE IF out = "struct" \/ body.o.data.t # "array"
         THEN [err |-> NilErr, v |-> NilSlice]
         ELSE IF out = "raw"
         THEN [err |-> NilErr, v |-> Slice(body.o.data.v)]
         ELSE IF out = "stations"
              THEN decodeStations(body.o.data.v, 1, <<>>)
              ELSE decodeDevices(body.o.data.v, 1, <<>>)

\* c.do(req, out): the request carries the cookies of the jar, the jar keeps
\* the cookies the response sets, and the body is decoded into out only
\* after the checks of the response
do(jar, res, out) ==
    CHOOSE x \in
        {[sent |-> requestCookies(jar),
          jar |-> storeCookies(jar, res.cookies),
          err |-> r.err,
          v |-> r.v] :
            r \in {IF ~IsNilErr(e) THEN [err |-> e, v |-> NilSlice]
                   ELSE IF out = "nil" THEN [err |-> NilErr, v |-> NilSlice]
                   ELSE decodeBody(res.body, out) :
                        e \in {checkResponse(res, out)}}} : TRUE

\* c.Stations(siteName): return v.Stations, err
Stations(jar, res) ==
    CHOOSE x \in
        {[coll |-> r.v, err |-> r.err, jar |-> r.jar, sent |-> r.sent] :
            r \in {do(jar, res, "stations")}} : TRUE

\* c.Devices(siteName): return v.Devices, err
Devices(jar, res) ==
    CHOOSE x \in
        {[coll |-> r.v, err |-> r.err, jar |-> r.jar, sent |-> r.sent] :
            r \in {do(jar, res, "devices")}} : TRUE

(***************************************************************************)
(* Client.Devices returning []Device, one element per device of a known    *)
(* type.  AP.UnmarshalJSON is not among the sources: it is modelled from   *)
(* TestAPUnmarshalJSON and spec.md (section 4.2) as far as the identity,   *)
(* the inform IP and the NICs of an AP.                                    *)
(***************************************************************************)
deviceUAP == "uap"

\* json.Unmarshal(data, &typ) for the struct typ that Devices declares above
\* its loop: a string is stored, an absent key or a null leaves typ.Type as
\* it is, another JSON value is an error
unmarshalType(typ, data) ==
    LET w == data.o.type
    IN IF w.t = "string" THEN [err |-> NilErr, typ |-> w.v]
       ELSE IF w.t \in {"absent", "null"} THEN [err |-> NilErr, typ |-> typ]
       ELSE [err |-> UnmarshalTypeError(<<w.t>>), typ |-> typ]

\* json.Unmarshal(b, &ap): the raw AP
unmarshalAP(b) ==
    LET o == b.o
        top == [ID |-> jsonString(o._id, ""),
                InformIP |-> jsonString(o.inform_ip, <<>>)]
        eth == [i \in 1..Len(tableEntries(o.ethernet_table)) |->
                   unmarshalEthernet(tableEntries(o.ethernet_table)[i])]
        errs == <<fieldError(top), tableError(o.ethernet_table),
                  entriesError(eth)>>
    IN [err |-> firstError([i \in 1..Len(errs) |-> [err |-> errs[i]]]),
        ap |-> fieldValues(top) @@
               [EthernetTable |-> [i \in 1..Len(eth) |-> fieldValues(eth[i])]]]

ZeroAP == [ID |-> "", InformIP |-> NilIP, NICs |-> NilSlice]

\* the statements of AP.UnmarshalJSON after json.Unmarshal returned j
apSteps(a, j) ==
    LET ip == deviceInformIP(j.ap)
        n == deviceNICsFrom(j.ap.EthernetTable, 1, <<>>)
    IN IF ~IsNilErr(j.err) THEN [err |-> j.err, ap |-> a]
       ELSE IF ~IsNilErr(ip.err) THEN [err |-> ip.err, ap |-> a]
       ELSE IF ~IsNilErr(n.err) THEN [err |-> n.err, ap |-> a]
       ELSE [err |-> NilErr,
             ap |-> [ID |-> j.ap.ID, InformIP |-> ip.ip, NICs |-> Slice(n.nics)]]

\* (a *AP) UnmarshalJSON(b): [err, ap]
APUnmarshalJSON(a, b) ==
    CHOOSE r \in {apSteps(a, j) : j \in {unmarshalAP(b)}} : TRUE

RECURSIVE devicesFromBestEffort(_, _, _, _, _)
\* devicesFrom with continue where the loop returns the error of an AP: an
\* element that does not decode is left out
devicesFromBestEffort(data, i, typ, devices, decoded) ==
    IF i > Len(data)
    THEN [coll |-> Slice(devices), err |-> NilErr, at |-> 0, decoded |-> decoded]
    ELSE CHOOSE x \in
        {IF ~IsNilErr(t.err)
         THEN [coll |-> NilSlice, err |-> t.err, at |-> i, decoded |-> decoded]
         ELSE IF t.typ # deviceUAP
         THEN devicesFromBestEffort(data, i + 1, t.typ, devices, decoded)
         ELSE CHOOSE y \in
            {IF ~IsNilErr(r.err)
             THEN devicesFromBestEffort(data, i + 1, t.typ, devices,
                                        Append(decoded, i))
             ELSE devicesFromBestEffort(data, i + 1, t.typ,
                                        Append(devices, r.ap), Append(decoded, i)) :
                r \in {APUnmarshalJSON(ZeroAP, data[i])}} : TRUE :
            t \in {unmarshalType(typ, data[i])}} : TRUE

RECURSIVE devicesFrom(_, _, _, _, _)
\* the loop of Devices over v.Data from element i on: typ is the struct the
\* type is decoded into, devices the slice built so far, decoded the indices
\* of the elements handed to AP.UnmarshalJSON so far.  [coll, err, at,
\* decoded]: at is the index of the element at which the loop returned, 0
\* when it ran to its end
devicesFrom(data, i, typ, devices, decoded) ==
    IF i > Len(data)
    THEN [coll |-> Slice(devices), err |-> NilErr, at |-> 0, decoded |-> decoded]
    ELSE CHOOSE x \in
        {IF ~IsNilErr(t.err)
         THEN [coll |-> NilSlice, err |-> t.err, at |-> i, decoded |-> decoded]
         ELSE IF t.typ # deviceUAP
         THEN devicesFrom(data, i + 1, t.typ, devices, decoded)
         ELSE CHOOSE y \in
            {IF ~IsNilErr(r.err)
             THEN [coll |-> NilSlice, err |-> r.err, at |-> i,
                   decoded |-> Append(decoded, i)]
             ELSE devicesFrom(data, i + 1, t.typ, Append(devices, r.ap),
                              Append(decoded, i)) :
                r \in {APUnmarshalJSON(ZeroAP, data[i])}} : TRUE :
            t \in {unmarshalType(typ, data[i])}} : TRUE

\* c.Devices(siteName) returning []Device: nil and the error of do, or the
\* outcome of the loop over v.Data
DevicesByType(jar, res) ==
    CHOOSE x \in
        {IF ~IsNilErr(r.err)
         THEN [coll |-> NilSlice, err |-> r.err, at |-> 0, decoded |-> <<>>,
               jar |-> r.jar, sent |-> r.sent]
         ELSE devicesFrom(r.v.elems, 1, "", <<>>, <<>>) @@
              [jar |-> r.jar, sent |-> r.sent] :
            r \in {do(jar, res, "raw")}} : TRUE

\* the responses of the server
Cookie(name, value) == [name |-> name, value |-> value]
NoCookies == {}
CookieSets ==
    {NoCookies, {Cookie("foo", "bar")}, {Cookie("foo", "baz")},
     {Cookie("sid", "bar")}}

Response(contentType, status, cookies, body) ==
    [contentType |-> contentType, status |-> status, cookies |-> cookies,
     body |-> body]

EmptyObject == Object([data |-> JAbsent])
Envelope(data) == Object([data |-> data])

DoResponses ==
    {Response(ct, st, cs, body) :
        ct \in {jsonContentType, textContentType}, st \in Statuses,
        cs \in CookieSets, body \in {Malformed, EmptyObject}}
DoTargets == {"nil", "struct"}

StationGood == StationObject(JStr(MacDEAD), JAbsent, JAbsent, StationAbsent)
StationFull ==
    StationObject(JStr(MacUpperHyphen), JStr(MacDotted), JStr(IPv4Text),
                  StationOfTest)
StationBad == StationObject(JStr(MacFoo), JAbsent, JAbsent, StationAbsent)
StationElems == {StationGood, StationFull, StationBad}

DeviceGood ==
    DeviceObject(JStr(IPv4Text), JStr(URLInform),
                 JArr(<<[mac |-> JStr(MacDEAD), name |-> JStr("eth0")]>>),
                 JArr(<<RadioEntry(JStr("wlan0"), JStr("ng"))>>),
                 JArr(<<StatsRow("wlan0", 3, 2, 1)>>),
                 NumsOfTest, DeviceOfTest)
DeviceBare ==
    DeviceObject(JAbsent, JAbsent, JAbsent, JAbsent, JAbsent, NumsAbsent,
                 DeviceAbsent)
DeviceBad ==
    DeviceObject(JStr(IPv4Text), JStr(URLInform),
                 JArr(<<[mac |-> JStr(MacFoo), name |-> JStr("eth0")]>>),
                 JAbsent, JAbsent, NumsAbsent, DeviceAbsent)
DeviceElems == {DeviceGood, DeviceBare, DeviceBad}

Bodies(elems) ==
    {Malformed, Envelope(JAbsent)} \cup
    {Envelope(JArr(t)) : t \in SeqsUpTo(elems, MaxData)}

FetchResponses(elems, good) ==
    {Response(jsonContentType, 200, NoCookies, body) : body \in Bodies(elems)}
    \cup
    {Response(ct[1], ct[2], NoCookies, body) :
        ct \in {<<textContentType, 200>>,
                <<jsonContentType, StatusInternalServerError>>},
        body \in {Malformed, Envelope(JArr(<<good>>))}}

\* the elements of the data array sent to Devices returning []Device: an
\* element is its type, its _id, its inform_ip and its ethernet_table
TypedElem(type, id, informIP, eth) ==
    Object([type |-> type, _id |-> JStr(id), inform_ip |-> informIP,
            ethernet_table |-> eth])
BadNICTable == JArr(<<[mac |-> JStr(MacFoo), name |-> JStr("eth0")]>>)
APGood == TypedElem(JStr("uap"), "ap1", JStr(IPv4Text), JAbsent)
APOther ==
    TypedElem(JStr("uap"), "ap2", JStr(IPv6Text),
              JArr(<<[mac |-> JStr(MacDEAD), name |-> JStr("eth0")]>>))
APBadIP == TypedElem(JStr("uap"), "ap3", JStr(IPFoo), JAbsent)
APBadNIC == TypedElem(JStr("uap"), "ap4", JStr(IPv4Text), BadNICTable)
SwitchGood == TypedElem(JStr("usw"), "sw1", JStr(IPv4Text), JAbsent)
SwitchBadIP == TypedElem(JStr("usw"), "sw2", JStr(IPFoo), JAbsent)
UntypedGood == TypedElem(JAbsent, "x1", JStr(IPv4Text), JAbsent)
UntypedBadIP == TypedElem(JAbsent, "x2", JStr(IPFoo), JAbsent)
TypeNull == TypedElem(JNull, "x3", JStr(IPv4Text), JAbsent)
TypeNumber == TypedElem(JNum(1), "n1", JStr(IPv4Text), JAbsent)
TypedElems ==
    {APGood, APOther, APBadIP, APBadNIC, SwitchGood, SwitchBadIP, UntypedGood,
     UntypedBadIP, TypeNull, TypeNumber}

(***************************************************************************)
(* The state machine.  A caller holds one Station, one Device and one       *)
(* Alarm, each either fresh (new(Station), ...) or left by an earlier      *)
(* decode, and calls UnmarshalJSON on one of them with the bytes b.        *)
(***************************************************************************)
VARIABLES
    pc,     \* "ready", or the method that has returned
    b,      \* the bytes passed to the method
    s,      \* the Station the caller holds
    d,      \* the Device the caller holds
    a,      \* the Alarm the caller holds
    err,    \* the error the method returned
    ret,    \* the step at which the method returned, and its local slices
    jar,    \* the cookies the client holds
    sent,   \* the cookies the client's last request carried
    hist,   \* the cookies each response so far has set, oldest first
    call,   \* the last response and the target passed to do with it
    coll    \* the collection the last fetch returned

vars == <<pc, b, s, d, a, err, ret, jar, sent, hist, call, coll>>
decoderVars == <<b, s, d, a, ret>>
clientVars == <<jar, sent, hist, call, coll>>

\* a Station and a Device left by an earlier, successful decode
PriorStation ==
    StationUnmarshalJSON(ZeroStation,
        StationObject(JStr(MacUpperHyphen), JStr(MacDotted), JStr(IPv6Text),
                      StationTimed)).s
PriorDevice ==
    DeviceUnmarshalJSON(ZeroDevice,
        DeviceObject(JStr(IPv6Text), JStr(URLRelative),
                     JArr(<<[mac |-> JStr(MacDotted), name |-> JStr("eth9")]>>),
                     JArr(<<RadioEntry(JStr("wlan9"), JStr("na"))>>),
                     JArr(<<StatsRow("wlan9", 9, 8, 1)>>),
                     NumsOfTest, DeviceOfTest)).d

PriorAlarm ==
    AlarmUnmarshalJSON(ZeroAlarm,
        AlarmObject(JStr(MacDotted), JStr(TimeEast), AlarmOfTest)).a

NoReturn == [at |-> "", nics |-> NilSlice, radios |-> NilSlice]
NoCall == [res |-> Response("", 0, NoCookies, Malformed), out |-> "nil"]

Init ==
    /\ pc = "ready"
    /\ b = Malformed
    /\ \E fresh \in BOOLEAN :
          /\ s = IF fresh THEN ZeroStation ELSE PriorStation
          /\ d = IF fresh THEN ZeroDevice ELSE PriorDevice
          /\ a = IF fresh THEN ZeroAlarm ELSE PriorAlarm
    /\ err = NilErr
    /\ ret = NoReturn
    /\ jar = NoCookies
    /\ sent = NoCookies
    /\ hist = <<>>
    /\ call = NoCall
    /\ coll = NilSlice

\* err := s.UnmarshalJSON(in)
CallStationUnmarshalJSON(in) ==
    /\ pc = "ready"
    /\ \E r \in {StationUnmarshalJSON(s, in)} :
          /\ s' = r.s
          /\ err' = r.err
          /\ ret' = [at |-> r.at, nics |-> NilSlice, radios |-> NilSlice]
    /\ b' = in
    /\ pc' = "Station.UnmarshalJSON"
    /\ UNCHANGED <<d, a>>
    /\ UNCHANGED clientVars

\* err := d.UnmarshalJSON(in)
CallDeviceUnmarshalJSON(in) ==
    /\ pc = "ready"
    /\ \E r \in {DeviceUnmarshalJSON(d, in)} :
          /\ d' = r.d
          /\ err' = r.err
          /\ ret' = [at |-> r.at, nics |-> r.nics, radios |-> r.radios]
    /\ b' = in
    /\ pc' = "Device.UnmarshalJSON"
    /\ UNCHANGED <<s, a>>
    /\ UNCHANGED clientVars

\* err := a.UnmarshalJSON(in)
CallAlarmUnmarshalJSON(in) ==
    /\ pc = "ready"
    /\ \E r \in {AlarmUnmarshalJSON(a, in)} :
          /\ a' = r.a
          /\ err' = r.err
          /\ ret' = [at |-> r.at, nics |-> NilSlice, radios |-> NilSlice]
    /\ b' = in
    /\ pc' = "Alarm.UnmarshalJSON"
    /\ UNCHANGED <<s, d>>
    /\ UNCHANGED clientVars

Next ==
    \/ \E in \in StationInputs : CallStationUnmarshalJSON(in)
    \/ \E in \in DeviceInputs : CallDeviceUnmarshalJSON(in)
    \/ \E in \in AlarmInputs : CallAlarmUnmarshalJSON(in)

Spec == Init /\ [][Next]_vars

(***************************************************************************)
(* The client: a new Client either sends up to MaxRequests requests with   *)
(* do, or calls one fetcher.                                               *)
(***************************************************************************)
ClientInit ==
    /\ pc = "NewClient"
    /\ b = Malformed
    /\ s = ZeroStation
    /\ d = ZeroDevice
    /\ a = ZeroAlarm
    /\ err = NilErr
    /\ ret = NoReturn
    /\ jar = NoCookies
    /\ sent = NoCookies
    /\ hist = <<>>
    /\ call = NoCall
    /\ coll = NilSlice

\* _, err = c.do(req, out), answered by the response res
CallDo(res, out) ==
    /\ pc \in {"NewClient", "Client.do"}
    /\ Len(hist) < MaxRequests
    /\ \E r \in {do(jar, res, out)} :
          /\ jar' = r.jar
          /\ sent' = r.sent
          /\ err' = r.err
    /\ hist' = Append(hist, res.cookies)
    /\ call' = [res |-> res, out |-> out]
    /\ pc' = "Client.do"
    /\ UNCHANGED coll
    /\ UNCHANGED decoderVars

\* stations, err := c.Stations(siteName), answered by the response res
CallStations(res) ==
    /\ pc = "NewClient"
    /\ \E r \in {Stations(jar, res)} :
          /\ jar' = r.jar
          /\ sent' = r.sent
          /\ err' = r.err
          /\ coll' = r.coll
    /\ hist' = Append(hist, res.cookies)
    /\ call' = [res |-> res, out |-> "stations"]
    /\ pc' = "Client.Stations"
    /\ UNCHANGED decoderVars

\* devices, err := c.Devices(siteName), answered by the response res
CallDevices(res) ==
    /\ pc = "NewClient"
    /\ \E r \in {Devices(jar, res)} :
          /\ jar' = r.jar
          /\ sent' = r.sent
          /\ err' = r.err
          /\ coll' = r.coll
    /\ hist' = Append(hist, res.cookies)
    /\ call' = [res |-> res, out |-> "devices"]
    /\ pc' = "Client.Devices"
    /\ UNCHANGED decoderVars

\* devices, err := c.Devices(siteName) for the Devices returning []Device,
\* answered by the response res
CallDevicesByType(res) ==
    /\ pc = "NewClient"
    /\ \E r \in {DevicesByType(jar, res)} :
          /\ jar' = r.jar
          /\ sent' = r.sent
          /\ err' = r.err
          /\ coll' = r.coll
          /\ ret' = [at |-> r.at, decoded |-> r.decoded]
    /\ hist' = Append(hist, res.cookies)
    /\ call' = [res |-> res, out |-> "raw"]
    /\ pc' = "Client.Devices []Device"
    /\ UNCHANGED <<b, s, d, a>>

ClientNext ==
    \/ \E res \in DoResponses, out \in DoTargets : CallDo(res, out)
    \/ \E res \in FetchResponses(StationElems, StationGood) : CallStations(res)
    \/ \E res \in FetchResponses(DeviceElems, DeviceGood) : CallDevices(res)

ClientSpec == ClientInit /\ [][ClientNext]_vars

\* a client whose Devices returns []Device
DevicesNext ==
    \E res \in FetchResponses(TypedElems, APGood) : CallDevicesByType(res)

DevicesSpec == ClientInit /\ [][DevicesNext]_vars

(***************************************************************************)
(* The vocabulary of the properties: the call that has returned, and what  *)
(* the Go documentation of net.ParseMAC, net.ParseIP, url.Parse and        *)
(* encoding/json says of each text of the model, stated without the        *)
(* parsers above.                                                          *)
(***************************************************************************)
StationReturned == pc = "Station.UnmarshalJSON" /\ b.wellFormed
DeviceReturned == pc = "Device.UnmarshalJSON" /\ b.wellFormed
Failed == ~IsNilErr(err)
Succeeded == IsNilErr(err)

\* the wire value w is a string whose text is in T
IsText(w, T) == w.t = "string" /\ w.v \in T
\* the wire value w is absent, or a string whose text is in T
AbsentOrText(w, T) == w.t = "absent" \/ IsText(w, T)

\* the texts that are hardware addresses: 6 bytes each
WellFormedMacTexts == {MacDEAD, MacUpperHyphen, MacDotted, MacZero}
MalformedMacTexts == {MacFoo, MacMixed, MacNotHex, MacShort}
\* the texts that are IP literals
ValidIPTexts == {IPv4Text, IPv6Text, IPMapped}
InvalidIPTexts == {EmptyText, IPFoo, IPBigOctet, IPThreeOctets, IPTwoEllipses}
\* the texts that url.Parse rejects
MalformedURLTexts ==
    {URLNoScheme, URLBadPort, URLSpaceInHost, URLBadEscape, URLColonSegment,
     URLControl}
\* the texts that are no number, and the texts that encoding/json stores in
\* a float64 and in an int
NonNumericTexts == {EmptyText, NumAbc, NumNull, NumBadExp, NumTrailing}
FloatTexts == {NumCPU, NumUptime, NumExp}
IntTexts == {NumUptime}

\* the wire tables of the device that was decoded
WireEthernet == tableEntries(b.o.ethernet_table)
WireRadios == tableEntries(b.o.radio_table)
WireRows == tableEntries(b.o.radio_table_stats)
\* the text of a wire name, "" when absent
WireName(w) == IF w.t = "string" THEN w.v ELSE ""
\* the numbers sent as strings of the device that was decoded
WireNums ==
    [cpu |-> b.o.system_stats.cpu, mem |-> b.o.system_stats.mem,
     uptime |-> b.o.system_stats.uptime,
     loadavg_1 |-> b.o.sys_stats.loadavg_1,
     loadavg_5 |-> b.o.sys_stats.loadavg_5,
     loadavg_15 |-> b.o.sys_stats.loadavg_15]
\* every number sent as a string is absent or a number of its field's type
NumsNumeric ==
    /\ AbsentOrText(WireNums.uptime, IntTexts)
    /\ \A k \in NumKeys \ {"uptime"} : AbsentOrText(WireNums[k], FloatTexts)
\* the station or device holds what it held before the call
StationUntouched == s \in {ZeroStation, PriorStation}
DeviceUntouched == d \in {ZeroDevice, PriorDevice}

(***************************************************************************)
(* Station.UnmarshalJSON                                                   *)
(***************************************************************************)
\* C1: a station wire object whose ip is absent or is no IP literal makes
\* Station.UnmarshalJSON return an error; it never succeeds with a nil IP.
C1_InvalidIPFails ==
    (StationReturned /\ AbsentOrText(b.o.ip, InvalidIPTexts)) =>
        (Failed /\ StationUntouched)

\* C2: a station wire object whose own mac is absent, empty or malformed
\* makes Station.UnmarshalJSON return an error and write no Station; a
\* Station that was decoded holds the six bytes of its address.
C2_MalformedMACFails ==
    /\ (StationReturned /\ AbsentOrText(b.o.mac, {EmptyText} \cup MalformedMacTexts))
          => (Failed /\ StationUntouched)
    /\ (StationReturned /\ Succeeded)
          => (IsText(b.o.mac, WellFormedMacTexts) /\ Len(s.MAC) = 6)

\* a malformed own mac, beside a well-formed ap_mac and a valid ip, is the
\* reason of the failure
C2_Witness ==
    /\ StationReturned
    /\ IsText(b.o.mac, MalformedMacTexts)
    /\ IsText(b.o.ap_mac, WellFormedMacTexts)
    /\ IsText(b.o.ip, ValidIPTexts)
    /\ Failed
    /\ ret.at = "mac"
    /\ s = PriorStation

\* C3: an absent or empty ap_mac never makes Station.UnmarshalJSON fail (the
\* decode succeeds whenever the own mac is well-formed and the ip is a text
\* or absent) and leaves APMAC nil; a non-empty ap_mac that is no hardware
\* address always makes it fail.
C3_APMACOptional ==
    /\ (StationReturned /\ AbsentOrText(b.o.ap_mac, {EmptyText})) =>
          /\ ret.at # "apMAC"
          /\ (IsText(b.o.mac, WellFormedMacTexts) /\ b.o.ip.t # "number")
                => Succeeded
          /\ Succeeded => s.APMAC = NilHW
    /\ (StationReturned /\ IsText(b.o.ap_mac, MalformedMacTexts)) =>
          (Failed /\ StationUntouched)
    /\ (StationReturned /\ Succeeded /\ IsText(b.o.ap_mac, WellFormedMacTexts)) =>
          Len(s.APMAC) = 6

\* a station with an empty ap_mac was decoded: its APMAC is nil, its MAC not
C3_Witness ==
    /\ StationReturned
    /\ IsText(b.o.ap_mac, {EmptyText})
    /\ Succeeded
    /\ ret.at = "end"
    /\ s.APMAC = NilHW
    /\ Len(s.MAC) = 6

(***************************************************************************)
(* Device.UnmarshalJSON                                                    *)
(***************************************************************************)
\* C4: a device wire object whose inform_ip is absent or is no IP literal
\* makes Device.UnmarshalJSON fail with the error "failed to parse inform
\* IP" and write no Device, whatever the other fields hold.
C4_InvalidInformIPFails ==
    (DeviceReturned /\ AbsentOrText(b.o.inform_ip, InvalidIPTexts)) =>
        /\ Failed
        /\ err.msg = "failed to parse inform IP"
        /\ DeviceUntouched

\* C5: a malformed inform_url makes Device.UnmarshalJSON fail, and no NIC
\* and no Radio has been built when it returns.
C5_MalformedInformURLFails ==
    (DeviceReturned /\ IsText(b.o.inform_url, MalformedURLTexts)) =>
        /\ Failed
        /\ DeviceUntouched
        /\ ret.nics = NilSlice
        /\ ret.radios = NilSlice

\* the URL check itself returned, for an object whose ethernet table holds an
\* entry with a well-formed address
C5_Witness ==
    /\ DeviceReturned
    /\ IsText(b.o.inform_url, MalformedURLTexts)
    /\ IsText(b.o.inform_ip, ValidIPTexts)
    /\ Len(WireEthernet) = 1
    /\ IsText(WireEthernet[1].mac, WellFormedMacTexts)
    /\ Failed
    /\ ret.at = "informURL"

\* C6: when an entry of ethernet_table, at whatever position, has an address
\* that is absent or malformed, the call of Device.UnmarshalJSON fails and
\* leaves the Device as it was: the NICs built before the entry are dropped.
C6_BadNICFailsAll ==
    [][(pc' = "Device.UnmarshalJSON" /\ b'.wellFormed
        /\ \E i \in 1..Len(tableEntries(b'.o.ethernet_table)) :
              AbsentOrText(tableEntries(b'.o.ethernet_table)[i].mac,
                           {EmptyText} \cup MalformedMacTexts))
       => (~IsNilErr(err') /\ d' = d)]_vars

\* the loop over the ethernet table returned at its second entry, after it
\* had built the NIC of the first
C6_Witness ==
    /\ DeviceReturned
    /\ Len(WireEthernet) = 2
    /\ IsText(WireEthernet[1].mac, WellFormedMacTexts)
    /\ AbsentOrText(WireEthernet[2].mac, MalformedMacTexts)
    /\ Failed
    /\ ret.at = "nics"
    /\ Len(ret.nics.elems) = 1
    /\ d = PriorDevice

\* C7: when one of the numbers sent as strings (cpu, mem, uptime, loadavg_1,
\* loadavg_5, loadavg_15) holds a text that is no number, Device.UnmarshalJSON
\* fails; the field is never left zero in a decoded Device.
C7_NonNumericFails ==
    (DeviceReturned /\ \E k \in NumKeys : IsText(WireNums[k], NonNumericTexts))
        => Failed

\* the band that the code w of a radio_table entry stands for
BandOf(w) ==
    IF IsText(w, {"ng"}) THEN "2.4GHz"
    ELSE IF IsText(w, {"na"}) THEN "5GHz"
    ELSE ""

\* C8: in a decoded Device the band of every Radio is "2.4GHz" for the code
\* "ng", "5GHz" for the code "na" and blank for any other or absent code;
\* and whatever the codes, the decode succeeds when the inform IP, the
\* inform URL, the NIC addresses and the numbers sent as strings are good.
C8_BandClassification ==
    /\ (DeviceReturned /\ Succeeded) =>
          \A i \in 1..Len(WireRadios) :
              d.Radios.elems[i].Radio = BandOf(WireRadios[i].radio)
    /\ (/\ DeviceReturned
        /\ IsText(b.o.inform_ip, ValidIPTexts)
        /\ ~IsText(b.o.inform_url, MalformedURLTexts)
        /\ \A i \in 1..Len(WireEthernet) :
              IsText(WireEthernet[i].mac, WellFormedMacTexts)
        /\ NumsNumeric)
          => Succeeded

\* a Device was decoded whose radio table holds a known code and one that is
\* not known or absent
C8_Witness ==
    /\ DeviceReturned
    /\ Succeeded
    /\ Len(WireRadios) = 2
    /\ IsText(WireRadios[1].radio, {"ng"})
    /\ ~IsText(WireRadios[2].radio, {"ng", "na"})
    /\ d.Radios.elems[1].Radio = "2.4GHz"
    /\ d.Radios.elems[2].Radio = ""

\* the rows of radio_table_stats whose name is name
RowsNamed(name) == {k \in 1..Len(WireRows) : WireName(WireRows[k].name) = name}
\* the Stats st hold the three counts of the row w
CountsOf(st, w) ==
    /\ st.NumberStations = w.num_sta.v
    /\ st.NumberUserStations = w.user_num_sta.v
    /\ st.NumberGuestStations = w.guest_num_sta.v

\* C9: in a decoded Device a Radio has Stats if and only if a row of
\* radio_table_stats has exactly its name; the three counts are then the
\* num_sta, user_num_sta and guest_num_sta of such a row; with no such row
\* the Stats are nil.
C9_StatsJoinByName ==
    (DeviceReturned /\ Succeeded) =>
        \A i \in 1..Len(d.Radios.elems) :
            LET r == d.Radios.elems[i]
            IN /\ r.Stats.nil <=> RowsNamed(r.Name) = {}
               /\ ~r.Stats.nil =>
                     \E k \in RowsNamed(r.Name) : CountsOf(r.Stats, WireRows[k])

\* a Device was decoded with one Radio that a row names and one that no row
\* names, beside a row of another name
C9_Witness ==
    /\ DeviceReturned
    /\ Succeeded
    /\ Len(WireRows) = 2
    /\ \E i, j \in 1..Len(d.Radios.elems) :
          /\ d.Radios.elems[i].Stats.nil
          /\ ~d.Radios.elems[j].Stats.nil
          /\ d.Radios.elems[j].Stats.NumberStations > 0
    /\ \E k \in 1..Len(WireRows) :
          \A i \in 1..Len(d.Radios.elems) :
              d.Radios.elems[i].Name # WireName(WireRows[k].name)

\* C10: a decoded Device has one Radio per entry of radio_table, in the order
\* of the table; a row of radio_table_stats that names no entry adds no Radio
\* and gives its counts to none.
C10_NoPhantomRadios ==
    (DeviceReturned /\ Succeeded) =>
        /\ Len(d.Radios.elems) = Len(WireRadios)
        /\ \A i \in 1..Len(WireRadios) :
              /\ d.Radios.elems[i].Name = WireName(WireRadios[i].name)
              /\ d.Radios.elems[i].MaxTXPower = WireRadios[i].max_txpower.v
              /\ d.Radios.elems[i].BuiltInAntennaGain
                    = WireRadios[i].builtin_ant_gain.v
        /\ \A k \in 1..Len(WireRows) :
              (\A i \in 1..Len(WireRadios) :
                  WireName(WireRadios[i].name) # WireName(WireRows[k].name))
              => \A i \in 1..Len(d.Radios.elems) :
                    /\ d.Radios.elems[i].Name # WireName(WireRows[k].name)
                    /\ (RowsNamed(d.Radios.elems[i].Name) = {}
                           => d.Radios.elems[i].Stats.nil)

\* a Device with two Radios was decoded from a radio table of two entries and
\* a statistics table that holds a row of a third name
C10_Witness ==
    /\ DeviceReturned
    /\ Succeeded
    /\ Len(WireRadios) = 2
    /\ Len(d.Radios.elems) = 2
    /\ d.Radios.elems[1].Name # d.Radios.elems[2].Name
    /\ \E k \in 1..Len(WireRows) : WireName(WireRows[k].name) = "wlan2"

\* the permutations of 1..n
Perms(n) ==
    {p \in [1..n -> 1..n] : \A i, j \in 1..n : i # j => p[i] # p[j]}
\* the Radios decoded from the bytes b with radio_table_stats reordered by p
RadiosReordered(p) ==
    CHOOSE r \in
        {deviceRadios(j.dev) :
            j \in {unmarshalDevice(
                      Object([b.o EXCEPT !.radio_table_stats =
                                 JArr([k \in 1..Len(WireRows) |-> WireRows[p[k]]])]))}} :
        TRUE
\* no two rows of radio_table_stats have one name and different counts
RowsAgreeByName ==
    \A k, l \in 1..Len(WireRows) :
        WireName(WireRows[k].name) = WireName(WireRows[l].name)
            => WireRows[k] = WireRows[l]

\* C11 as stated: for every reordering of the rows of radio_table_stats each
\* Radio of the decoded Device has the Stats it has for the order sent.
C11_JoinOrderIndependent ==
    (DeviceReturned /\ Succeeded) =>
        \A p \in Perms(Len(WireRows)) :
            \A i \in 1..Len(d.Radios.elems) :
                RadiosReordered(p)[i].Stats = d.Radios.elems[i].Stats

\* C11 amended: when no two rows of radio_table_stats have one name and
\* different counts, every reordering of the rows gives each Radio the Stats
\* it has for the order sent.
C11_JoinOrderIndependentUniqueNames ==
    (DeviceReturned /\ Succeeded /\ RowsAgreeByName) =>
        \A p \in Perms(Len(WireRows)) :
            \A i \in 1..Len(d.Radios.elems) :
                RadiosReordered(p)[i].Stats = d.Radios.elems[i].Stats

\* a Device was decoded whose two Radios each have the Stats of one of two
\* rows of different names, the row of the second Radio sent first
C11_Witness ==
    /\ DeviceReturned
    /\ Succeeded
    /\ RowsAgreeByName
    /\ Len(WireRows) = 2
    /\ Len(d.Radios.elems) = 2
    /\ WireName(WireRows[1].name) = d.Radios.elems[2].Name
    /\ WireName(WireRows[2].name) = d.Radios.elems[1].Name
    /\ ~d.Radios.elems[1].Stats.nil
    /\ ~d.Radios.elems[2].Stats.nil
    /\ d.Radios.elems[1].Stats # d.Radios.elems[2].Stats

\* C12: a decoded Device has NICs and Radios that are not nil; a missing or
\* empty ethernet_table or radio_table gives an empty slice, and a table with
\* entries a slice of as many elements.
C12_ContainersNotNil ==
    (DeviceReturned /\ Succeeded) =>
        /\ ~d.NICs.nil
        /\ ~d.Radios.nil
        /\ Len(d.NICs.elems) = Len(WireEthernet)
        /\ Len(d.Radios.elems) = Len(WireRadios)

\* a Device was decoded from an object with no ethernet_table and an empty
\* radio_table
C12_Witness ==
    /\ DeviceReturned
    /\ Succeeded
    /\ b.o.ethernet_table.t = "absent"
    /\ b.o.radio_table.t = "array"
    /\ Len(WireRadios) = 0
    /\ d.NICs = [nil |-> FALSE, elems |-> <<>>]
    /\ d.Radios = [nil |-> FALSE, elems |-> <<>>]

\* the number of a wire value, 0 when absent
WireNumber(w) == IF w.t = "number" THEN w.v ELSE 0
\* the instant n seconds after 1970-01-01T00:00:00Z
EpochPlus(n) == [wall |-> "unix", sec |-> n]

\* C13: in a decoded Station AssociationTime, FirstSeen and LastSeen are the
\* instants assoc_time, first_seen and last_seen seconds after the epoch
\* (the epoch itself when the key is absent), and IdleTime and Uptime are
\* idletime and uptime seconds, in nanoseconds.
C13_StationTimes ==
    (StationReturned /\ Succeeded) =>
        /\ s.AssociationTime = EpochPlus(WireNumber(b.o.assoc_time))
        /\ s.FirstSeen = EpochPlus(WireNumber(b.o.first_seen))
        /\ s.LastSeen = EpochPlus(WireNumber(b.o.last_seen))
        /\ s.IdleTime = WireNumber(b.o.idletime) * 1000 * 1000 * 1000
        /\ s.Uptime = WireNumber(b.o.uptime) * 1000 * 1000 * 1000

\* a Station was decoded from an object with three different times and an
\* idle time
C13_Witness ==
    /\ StationReturned
    /\ Succeeded
    /\ b.o.assoc_time.t = "number"
    /\ b.o.idletime.t = "number"
    /\ s.AssociationTime.sec > s.FirstSeen.sec
    /\ s.LastSeen.sec > s.AssociationTime.sec
    /\ s.IdleTime > 0
    /\ s.Uptime > s.IdleTime

\* C15: bytes that are not well-formed JSON make Station.UnmarshalJSON and
\* Device.UnmarshalJSON return the syntax error of json.Unmarshal itself, at
\* the first step, before any field is checked and with nothing written.
C15_SyntaxErrorPassedThrough ==
    (pc \in {"Station.UnmarshalJSON", "Device.UnmarshalJSON"} /\ ~b.wellFormed) =>
        /\ err = SyntaxError
        /\ ret.at = "json"
        /\ StationUntouched
        /\ DeviceUntouched

\* Station.UnmarshalJSON returned the syntax error for malformed bytes
C15_Witness ==
    /\ pc = "Station.UnmarshalJSON"
    /\ ~b.wellFormed
    /\ err.type = "*json.SyntaxError"
    /\ ret.at = "json"
    /\ s = PriorStation

\* the error of decoding a station whose only key is key, holding the text t
StationErrorFor(key, t) ==
    StationUnmarshalJSON(ZeroStation,
        Object([[k \in DOMAIN b.o |-> JAbsent] EXCEPT ![key] = JStr(t)])).err

\* C16: the error of a field that does not parse names the field and holds
\* the raw text: when the own mac of a station does not parse, the error is
\* not the error that the same text gives as the ap_mac.
C16_FieldErrorsDistinguishable ==
    (StationReturned /\ Failed /\ ret.at = "mac" /\ IsText(b.o.mac, MalformedMacTexts))
        => /\ err.val = b.o.mac.v
           /\ StationErrorFor("ap_mac", b.o.mac.v).type # "nil"
           /\ StationErrorFor("ap_mac", b.o.mac.v) # err

(***************************************************************************)
(* Alarm.UnmarshalJSON                                                     *)
(***************************************************************************)
AlarmReturned == pc = "Alarm.UnmarshalJSON" /\ b.wellFormed
\* the texts that are a time in the layout, and those that are not
ValidTimeTexts == {TimeOfTest, TimeEast, TimeFraction}
InvalidTimeTexts ==
    {EmptyText, TimeFoo, TimeSpace, TimeNoZone, TimeBadMonth, TimeBadDay,
     TimeBadOffset}

\* C20: an alarm wire object whose ap is absent, empty or malformed makes
\* Alarm.UnmarshalJSON fail with the error "invalid MAC address" and write no
\* Alarm, also when its datetime is absent or is no time in the layout: the
\* address is checked before the datetime.
C20_AlarmBadAPFails ==
    (AlarmReturned
     /\ AbsentOrText(b.o.ap, {EmptyText} \cup MalformedMacTexts)
     /\ b.o.datetime.t # "number")
        => /\ Failed
           /\ err.msg = "invalid MAC address"
           /\ ret.at = "apMAC"
           /\ a \in {ZeroAlarm, PriorAlarm}

\* an object with a malformed ap and a datetime that is no time was decoded:
\* the error is that of the address
C20_Witness ==
    /\ AlarmReturned
    /\ IsText(b.o.ap, MalformedMacTexts)
    /\ IsText(b.o.datetime, InvalidTimeTexts \ {EmptyText})
    /\ err.type = "*net.AddrError"
    /\ err.val = b.o.ap.v
    /\ a = PriorAlarm

(***************************************************************************)
(* Client                                                                  *)
(***************************************************************************)
DoReturned == pc = "Client.do"
FetchReturned == pc \in {"Client.Stations", "Client.Devices"}
Requests == Len(hist)

\* C14: whenever a fetch (Stations, Devices) returns a non-nil error, the
\* collection it returns is nil or empty: no prefix of decoded entities and
\* no zero entity.
C14_FetchAllOrNothing ==
    (FetchReturned /\ Failed) => (coll.nil \/ Len(coll.elems) = 0)

\* C17: a cookie set by any earlier response, and not set again since, is
\* among the cookies every later request of the client carries; a cookie
\* set again is carried under its name.
C17_SessionContinuity ==
    \A k \in 1..(Requests - 1) : \A c \in hist[k] :
        /\ \E x \in sent : x.name = c.name
        /\ (\A j \in (k + 1)..(Requests - 1) : \A y \in hist[j] : y.name # c.name)
              => c \in sent

C17_Witness ==
    /\ DoReturned
    /\ Requests = 3
    /\ hist[1] = {Cookie("foo", "bar")}
    /\ hist[2] = NoCookies
    /\ Cookie("foo", "bar") \in sent

\* C18: a response with the JSON content type and a status outside 200..299
\* makes do, and a fetch through it, fail with the error that carries the
\* status code, whatever the body, and nothing is decoded into the target.
C18_BadStatusFails ==
    (/\ DoReturned \/ FetchReturned
     /\ call.res.contentType = jsonContentType
     /\ (call.res.status < 200 \/ call.res.status > 299))
        => /\ Failed
           /\ err.msg = "unexpected HTTP status code"
           /\ err.val = call.res.status
           /\ coll = NilSlice

C18_Witness ==
    /\ pc = "Client.Stations"
    /\ call.res.contentType = jsonContentType
    /\ call.res.status = StatusInternalServerError
    /\ call.res.body = Envelope(JArr(<<StationGood>>))
    /\ err.msg = "unexpected HTTP status code"
    /\ err.val = StatusInternalServerError
    /\ coll = NilSlice

\* C19: a response whose content type is not the JSON content type makes do
\* fail with the content type error that names the received type, also when
\* the status is a success and the target is nil.
C19_BadContentTypeFails ==
    (/\ DoReturned \/ FetchReturned
     /\ call.res.contentType # jsonContentType)
        => /\ Failed
           /\ err.msg = "unexpected content type"
           /\ err.val = call.res.contentType
           /\ coll = NilSlice

C19_Witness ==
    /\ DoReturned
    /\ call.out = "nil"
    /\ call.res.status = 200
    /\ call.res.contentType = textContentType
    /\ err.msg = "unexpected content type"
    /\ err.val = textContentType

\* the instant each time text of the model denotes, in seconds (and
\* nanoseconds) since 1970-01-01 00:00:00 UTC
InstantOf(t) ==
    IF t = TimeFraction
    THEN [wall |-> "unix", sec |-> 1456790399, nsec |-> 500000000]
    ELSE EpochPlus(1451606400)

\* C21: with a well-formed ap, a datetime that is absent or is no time in the
\* layout makes Alarm.UnmarshalJSON fail with the error of time.Parse and
\* write no Alarm; a datetime in the layout makes it succeed with exactly the
\* instant the text denotes ("2016-01-01T00:00:00Z" is 1451606400 s after
\* the epoch, and so is "2016-01-01T01:00:00+01:00").
C21_AlarmDateTime ==
    (AlarmReturned /\ IsText(b.o.ap, WellFormedMacTexts)) =>
        /\ AbsentOrText(b.o.datetime, InvalidTimeTexts)
              => /\ Failed
                 /\ err.type = "*time.ParseError"
                 /\ ret.at = "dateTime"
                 /\ a \in {ZeroAlarm, PriorAlarm}
        /\ IsText(b.o.datetime, ValidTimeTexts)
              => /\ Succeeded
                 /\ a.DateTime = InstantOf(b.o.datetime.v)

\* a datetime whose zone offset is written without the colon was refused,
\* beside a well-formed ap
C21_Witness ==
    /\ AlarmReturned
    /\ IsText(b.o.ap, WellFormedMacTexts)
    /\ IsText(b.o.datetime, {TimeBadOffset})
    /\ err.type = "*time.ParseError"
    /\ err.val = TimeBadOffset
    /\ a = PriorAlarm

(***************************************************************************)
(* The order of the checks                                                 *)
(***************************************************************************)
BothMACsMalformed ==
    /\ StationReturned
    /\ IsText(b.o.mac, MalformedMacTexts)
    /\ IsText(b.o.ap_mac, MalformedMacTexts)
    /\ b.o.ip.t # "number"

C24_InformIPBeforeNumbers ==
    (/\ DeviceReturned
     /\ AbsentOrText(b.o.inform_ip, InvalidIPTexts)
     /\ \E k \in NumKeys : IsText(WireNums[k], NonNumericTexts))
        => /\ Failed
           /\ ret.at = "informIP"
           /\ err.msg = "failed to parse inform IP"

\* the URL that url.Parse returns for the empty text
EmptyURL == MkURL(<<>>, <<>>, <<>>, <<>>, <<>>, <<>>)

NoInformURL ==
    /\ DeviceReturned
    /\ IsText(b.o.inform_ip, ValidIPTexts)
    /\ AbsentOrText(b.o.inform_url, {EmptyText})

\* C25: a device wire object with a valid inform_ip and an absent or empty
\* inform_url does not fail at the inform URL: the ethernet table is checked
\* next, and when its addresses are well-formed and the numbers sent as
\* strings are numeric the decode succeeds, with an empty, non-nil InformURL.
C25_AbsentInformURLSucceeds ==
    NoInformURL =>
        /\ ret.at \notin {"informIP", "informURL"}
        /\ ret.at = "nics"
              => \E i \in 1..Len(WireEthernet) :
                    ~IsText(WireEthernet[i].mac, WellFormedMacTexts)
        /\ (/\ NumsNumeric
            /\ \A i \in 1..Len(WireEthernet) :
                  IsText(WireEthernet[i].mac, WellFormedMacTexts))
              => (Succeeded /\ d.InformURL = EmptyURL)

\* a device with no inform_url and one NIC was decoded
C25_Witness ==
    /\ NoInformURL
    /\ b.o.inform_url.t = "absent"
    /\ Len(WireEthernet) = 1
    /\ Succeeded
    /\ d.InformURL = EmptyURL
    /\ Len(d.NICs.elems) = 1

(***************************************************************************)
(* The statistics                                                          *)
(***************************************************************************)
Present(p) == ~p.nil

ZeroWirelessStats ==
    [nil |-> FALSE, ReceiveBytes |-> FloatZero, ReceivePackets |-> FloatZero,
     TransmitBytes |-> FloatZero, TransmitDropped |-> FloatZero,
     TransmitPackets |-> FloatZero]
ZeroWiredStats ==
    [nil |-> FALSE, ReceiveBytes |-> FloatZero, ReceivePackets |-> FloatZero,
     TransmitBytes |-> FloatZero, TransmitPackets |-> FloatZero]
ZeroSystemStats ==
    [nil |-> FALSE, Uptime |-> 0, CpuPercentage |-> FloatZero,
     MemPercentage |-> FloatZero, LoadAvg1 |-> FloatZero,
     LoadAvg15 |-> FloatZero, LoadAvg5 |-> FloatZero, MemBuffer |-> 0,
     MemTotal |-> 0, MemUsed |-> 0]

\* C27: a Device that was decoded has a Stats, and in it an All, a User, a
\* Guest, an Uplink and a System, none nil, each holding zero values when
\* the wire object has no statistics for it; a Station that was decoded has
\* a Stats whose counters are the wire counters, zero when absent.
C27_StatsPresent ==
    /\ (DeviceReturned /\ Succeeded) =>
          /\ Present(d.Stats)
          /\ \A k \in {"All", "User", "Guest", "Uplink", "System"} :
                Present(d.Stats[k])
          /\ b.o.stat = StatAbsent
                => /\ d.Stats.TotalBytes = FloatZero
                   /\ d.Stats.All = ZeroWirelessStats
                   /\ d.Stats.User = ZeroWirelessStats
                   /\ d.Stats.Guest = ZeroWirelessStats
          /\ b.o.uplink = UplinkAbsent => d.Stats.Uplink = ZeroWiredStats
          /\ (WireNums = NumsAbsent /\ b.o.sys_stats.mem_total.t = "absent")
                => d.Stats.System = ZeroSystemStats
    /\ (StationReturned /\ Succeeded) =>
          /\ Present(s.Stats)
          /\ s.Stats.ReceiveBytes = WireNumber(b.o.rx_bytes)
          /\ s.Stats.ReceivePackets = WireNumber(b.o.rx_packets)
          /\ s.Stats.ReceiveRate = WireNumber(b.o.rx_rate)
          /\ s.Stats.TransmitBytes = WireNumber(b.o.tx_bytes)
          /\ s.Stats.TransmitPackets = WireNumber(b.o.tx_packets)
          /\ s.Stats.TransmitPower = WireNumber(b.o.tx_power)
          /\ s.Stats.TransmitRate = WireNumber(b.o.tx_rate)

\* a device that sent no statistics at all was decoded onto a Device that
\* held statistics
C27_Witness ==
    /\ DeviceReturned
    /\ Succeeded
    /\ b.o.stat = StatAbsent
    /\ b.o.uplink = UplinkAbsent
    /\ WireNums = NumsAbsent
    /\ d.Stats.Guest = ZeroWirelessStats
    /\ d.Stats.System = ZeroSystemStats
    /\ d.InformIP # PriorDevice.InformIP

(***************************************************************************)
(* The receiver                                                            *)
(***************************************************************************)
\* C28: a call of Station.UnmarshalJSON or Device.UnmarshalJSON that returns
\* an error leaves the receiver exactly as it was; a call that returns nil
\* leaves in the receiver what the same bytes leave in a new one, so nothing
\* of what the receiver held survives.
C28_ReceiverAllOrNothing ==
    [][/\ pc' = "Station.UnmarshalJSON"
          => IF IsNilErr(err')
             THEN s' = StationUnmarshalJSON(ZeroStation, b').s
             ELSE s' = s
       /\ pc' = "Device.UnmarshalJSON"
          => IF IsNilErr(err')
             THEN d' = DeviceUnmarshalJSON(ZeroDevice, b').d
             ELSE d' = d]_vars

\* a Station holding an earlier decode was handed an object with a
\* well-formed ap_mac and a malformed own mac, and holds the earlier decode
C28_Witness ==
    /\ StationReturned
    /\ IsText(b.o.ap_mac, WellFormedMacTexts \ {MacDotted})
    /\ IsText(b.o.mac, MalformedMacTexts)
    /\ Failed
    /\ ret.at = "mac"
    /\ s = PriorStation
    /\ s # ZeroStation

(***************************************************************************)
(* Rows of radio_table_stats that share a name                             *)
(***************************************************************************)
\* the last of the rows named name, in wire order
LastRowNamed(name) ==
    CHOOSE k \in RowsNamed(name) : \A l \in RowsNamed(name) : l <= k

\* C30: when several rows of radio_table_stats have the name of a Radio, the
\* Radio of the decoded Device has one Stats, holding the counts of the last
\* of these rows in wire order.
C30_LastRowWins ==
    (DeviceReturned /\ Succeeded) =>
        \A i \in 1..Len(d.Radios.elems) :
            LET r == d.Radios.elems[i]
            IN RowsNamed(r.Name) # {}
                  => /\ ~r.Stats.nil
                     /\ CountsOf(r.Stats, WireRows[LastRowNamed(r.Name)])

\* two rows named wlan0 with different counts were sent for a Radio wlan0,
\* which holds the counts of the second
C30_Witness ==
    /\ DeviceReturned
    /\ Succeeded
    /\ Len(WireRows) = 2
    /\ WireName(WireRows[1].name) = WireName(WireRows[2].name)
    /\ WireRows[1] # WireRows[2]
    /\ \E i \in 1..Len(d.Radios.elems) :
          /\ d.Radios.elems[i].Name = WireName(WireRows[1].name)
          /\ CountsOf(d.Radios.elems[i].Stats, WireRows[2])
          /\ ~CountsOf(d.Radios.elems[i].Stats, WireRows[1])

(***************************************************************************)
(* Devices returning []Device.                                             *)
(***************************************************************************)
DevicesByTypeReturned == pc = "Client.Devices []Device"
\* the response passed the checks of do and its body is an object
TransportOK ==
    /\ call.res.status = 200
    /\ call.res.contentType = jsonContentType
    /\ call.res.body.wellFormed
\* the data collection on the wire
WireData ==
    IF call.res.body.wellFormed /\ call.res.body.o.data.t = "array"
    THEN call.res.body.o.data.v
    ELSE <<>>
IsUAP(e) == e.o.type = JStr("uap")
BadDiscriminant(e) == e.o.type.t \notin {"string", "absent", "null"}
BadBody(e) == ~IsNilErr(APUnmarshalJSON(ZeroAP, e).err)
Decoded == {ret.decoded[i] : i \in 1..Len(ret.decoded)}
RECURSIVE APsOf(_, _)
\* the decoded APs of the elements of type "uap" from element i on
APsOf(data, i) ==
    IF i > Len(data) THEN <<>>
    ELSE IF IsUAP(data[i])
         THEN <<APUnmarshalJSON(ZeroAP, data[i]).ap>> \o APsOf(data, i + 1)
         ELSE APsOf(data, i + 1)

\* C22: an element whose type is not "uap" is skipped and never makes the
\* call fail: a call that fails fails at an element of type "uap", and a call
\* that succeeds returns exactly the decoded APs of the elements of type
\* "uap", in wire order.
C22_OnlyUAPsDecoded ==
    (DevicesByTypeReturned /\ TransportOK) =>
        IF IsNilErr(err)
        THEN coll = Slice(APsOf(WireData, 1))
        ELSE ret.at \in 1..Len(WireData) /\ IsUAP(WireData[ret.at])

\* C26: the call fails exactly when some element has a discriminant that
\* does not decode or is of type "uap" with a body that does not decode; it
\* then returns a nil collection and the error of the first element that
\* failed, every element handed to the AP decoder before it having decoded,
\* and no element after it is decoded.  Elements are decoded in wire order.
C26_FailFast ==
    (DevicesByTypeReturned /\ TransportOK) =>
        /\ \A i, j \in 1..Len(ret.decoded) :
              i < j => ret.decoded[i] < ret.decoded[j]
        /\ (\E i \in 1..Len(WireData) :
               BadDiscriminant(WireData[i])
               \/ (IsUAP(WireData[i]) /\ BadBody(WireData[i])))
              => Failed
        /\ Failed =>
              /\ coll = NilSlice
              /\ ret.at \in 1..Len(WireData)
              /\ \A i \in Decoded : i <= ret.at
              /\ \A i \in 1..(ret.at - 1) :
                    /\ ~BadDiscriminant(WireData[i])
                    /\ i \in Decoded => ~BadBody(WireData[i])
              /\ IF BadDiscriminant(WireData[ret.at])
                 THEN err = UnmarshalTypeError(<<WireData[ret.at].o.type.t>>)
                 ELSE /\ ret.at \in Decoded
                      /\ err = APUnmarshalJSON(ZeroAP, WireData[ret.at]).err
                      /\ ~IsNilErr(err)

\* a call that failed at the first of two elements, the second of type "uap"
C26_Witness ==
    /\ DevicesByTypeReturned
    /\ TransportOK
    /\ Failed
    /\ Len(WireData) = 2
    /\ ret.at = 1
    /\ IsUAP(WireData[2])
    /\ ~BadBody(WireData[2])
    /\ coll = NilSlice

\* C29: the variant chosen for an element depends on its own type field
\* only: an element is handed to the AP decoder only if its own type is
\* "uap", so an element with no type field is skipped whatever precedes it.
C29_OwnTypeOnly ==
    DevicesByTypeReturned => \A i \in Decoded : IsUAP(WireData[i])

====
